---------------------------- MODULE Spec2Model ----------------------------
(***************************************************************************)
(* Multimodal RAG: the retrieval layer (core/retrieval.py), the context    *)
(* formatter and answer generator (core/generation.py) and the query       *)
(* endpoint (app/main.py).                                                 *)
(*                                                                         *)
(* Distances and weights are rationals in the program (floats); here a     *)
(* distance is an integer number of score units and a weight an integer    *)
(* number of quarters (1 = 0.25, 2 = 0.5, 4 = 1.0), so that the product    *)
(* score * weight orders exactly as the program's product does.            *)
(***************************************************************************)
EXTENDS Integers, Sequences, FiniteSets, TLC

VARIABLES
    store,      \* the three vector collections: per type, the documents the
                \* collection ranks for the query (nearest first), and
                \* whether its query answers or raises
    results,    \* a retrieval result handed to the generator / the PDF scan
    req,        \* the call being served: operation and arguments
    out,        \* what the call returned or raised, with its external calls
    pc          \* "idle" before the call, "done" after it

vars == <<store, results, req, out, pc>>

----------------------------------------------------------------------------
(* Bounds of the model *)

MaxDocs == 2        \* documents a collection ranks for the query
MaxK == 2           \* largest k a caller asks for

----------------------------------------------------------------------------
(* Values *)

None == "None"      \* Python's None, and a key absent from a dict

Types == {"text", "image", "table"}
TypeOrder == <<"text", "image", "table">>

Min(a, b) == IF a <= b THEN a ELSE b
Max(a, b) == IF a >= b THEN a ELSE b

\* s[:k] for k >= 0
Prefix(s, k) == SubSeq(s, 1, Min(k, Len(s)))

\* dict.get(key, default)
Get(d, key, default) == IF key \in DOMAIN d THEN d[key] ELSE default

EmptyGroups == [text |-> <<>>, images |-> <<>>, tables |-> <<>>]

----------------------------------------------------------------------------
(* The vector collections (collaborator).  A collection's answer to the     *)
(* query is its documents by ascending distance; a search for k returns the *)
(* first k of them, and raises when the collection is down.                 *)

\* the i-th document the collection of type t ranks, at distance sc
Document(t, i, sc) == [id |-> <<t, i>>, score |-> sc]

IsAscending(scs) == \A i \in 1..(Len(scs) - 1) : scs[i] <= scs[i + 1]

\* raw distances, in score units
Scores == {0, 1}

ScoreLists == {scs \in UNION {[1..n -> Scores] : n \in 0..MaxDocs} : IsAscending(scs)}

Ranked(t, scs) == [i \in 1..Len(scs) |-> Document(t, i, scs[i])]

\* a collection that answers, or one whose query raises
CollectionStates(t) ==
    {[up |-> TRUE, docs |-> Ranked(t, scs)] : scs \in ScoreLists}
        \cup {[up |-> FALSE, docs |-> <<>>]}

Stores == [text : CollectionStates("text"),
           image : CollectionStates("image"),
           table : CollectionStates("table")]

\* store.similarity_search(query, k=k)
similarity_search(st, t, k) ==
    IF ~st[t].up
    THEN [raised |-> TRUE, docs |-> <<>>]
    ELSE [raised |-> FALSE, docs |-> Prefix(st[t].docs, k)]

\* store.similarity_search_with_score(query, k=k): (doc, score) pairs
similarity_search_with_score(st, t, k) ==
    IF ~st[t].up
    THEN [raised |-> TRUE, docs |-> <<>>]
    ELSE [raised |-> FALSE, docs |-> Prefix(st[t].docs, k)]

\* one entry of the log of searches issued against the collections
SearchCall(t, op, k) == [coll |-> t, op |-> op, k |-> k]

\* Max-marginal-relevance selection over one collection.  The embedding is
\* one-dimensional: the query at the origin and a document at its distance,
\* so two documents are as similar as their distances are close.  lambda_mult
\* is in quarters (LambdaOne = 1.0).
LambdaOne == 4

\* similarity is the negated distance
Relevance(d) == 0 - d.score

Similarity(d1, d2) ==
    0 - (IF d1.score >= d2.score THEN d1.score - d2.score
                                 ELSE d2.score - d1.score)

SetMax(S) == CHOOSE x \in S : \A y \in S : y <= x
SetMin(S) == CHOOSE x \in S : \A y \in S : x <= y

\* lambda_mult * relevance - (1 - lambda_mult) * max similarity to selected
MmrScore(cands, idxs, i, lambda_mult) ==
    lambda_mult * Relevance(cands[i])
    - (LambdaOne - lambda_mult)
        * SetMax({Similarity(cands[i], cands[idxs[j]]) : j \in 1..Len(idxs)})

RECURSIVE MmrSelect(_, _, _, _)
MmrSelect(cands, idxs, k, lambda_mult) ==
    IF Len(idxs) >= Min(k, Len(cands)) THEN idxs
    ELSE LET left == (1..Len(cands)) \ {idxs[j] : j \in 1..Len(idxs)}
             value(i) == IF idxs = <<>> THEN Relevance(cands[i])
                         ELSE MmrScore(cands, idxs, i, lambda_mult)
             best == SetMax({value(i) : i \in left})
             pick == SetMin({i \in left : value(i) = best})
         IN  MmrSelect(cands, Append(idxs, pick), k, lambda_mult)

\* store.max_marginal_relevance_search(query, k, fetch_k, lambda_mult)
max_marginal_relevance_search(st, t, k, fetch_k, lambda_mult) ==
    IF ~st[t].up
    THEN [raised |-> TRUE, docs |-> <<>>]
    ELSE LET cands == Prefix(st[t].docs, fetch_k)
             idxs == MmrSelect(cands, <<>>, k, lambda_mult)
         IN  [raised |-> FALSE, docs |-> [j \in 1..Len(idxs) |-> cands[idxs[j]]]]


----------------------------------------------------------------------------
(* MultimodalRetriever *)

\* results[...] = store.similarity_search(...) inside try/except: the group
\* keeps its initial [] when the search raises
TrySearch(st, t, k) ==
    LET r == similarity_search(st, t, k)
    IN  IF r.raised THEN <<>> ELSE r.docs

\* the three searches under one try/except: the first failure ends the scan
retrieve_all_one_try(st, k_text, k_images, k_tables) ==
    LET t == similarity_search(st, "text", k_text)
        i == similarity_search(st, "image", k_images)
        b == similarity_search(st, "table", k_tables)
    IN  [raised |-> FALSE,
         results |-> [text |-> IF t.raised THEN <<>> ELSE t.docs,
                      images |-> IF t.raised \/ i.raised THEN <<>> ELSE i.docs,
                      tables |-> IF t.raised \/ i.raised \/ b.raised THEN <<>> ELSE b.docs],
         searches |-> <<SearchCall("text", "similarity_search", k_text)>>
                      \o (IF t.raised THEN <<>>
                          ELSE <<SearchCall("image", "similarity_search", k_images)>>)
                      \o (IF t.raised \/ i.raised THEN <<>>
                          ELSE <<SearchCall("table", "similarity_search", k_tables)>>)]

retrieve_all(st, k_text, k_images, k_tables) ==
    [raised |-> FALSE,
     results |-> [text |-> TrySearch(st, "text", k_text),
                  images |-> TrySearch(st, "image", k_images),
                  tables |-> TrySearch(st, "table", k_tables)],
     searches |-> <<SearchCall("text", "similarity_search", k_text),
                    SearchCall("image", "similarity_search", k_images),
                    SearchCall("table", "similarity_search", k_tables)>>]

\* the raw distance appended in place of the weighted one
WeightedResultsUnweighted(st, t, k, weight) ==
    LET r == similarity_search_with_score(st, t, k)
    IN  IF r.raised
        THEN <<>>
        ELSE [i \in 1..Len(r.docs) |->
                [doc |-> r.docs[i], score |-> r.docs[i].score, type |-> t]]

\* for doc, score in results: all_results.append((doc, score * weight, type))
\* inside try/except: nothing is appended when the search raises
WeightedResults(st, t, k, weight) ==
    LET r == similarity_search_with_score(st, t, k)
    IN  IF r.raised
        THEN <<>>
        ELSE [i \in 1..Len(r.docs) |->
                [doc |-> r.docs[i], score |-> r.docs[i].score * weight, type |-> t]]

\* a sort that puts an item before the earlier items of equal score
RECURSIVE InsertByScoreBeforeTies(_, _)
InsertByScoreBeforeTies(sorted, x) ==
    IF sorted = <<>> THEN <<x>>
    ELSE IF sorted[Len(sorted)].score < x.score THEN Append(sorted, x)
    ELSE Append(InsertByScoreBeforeTies(SubSeq(sorted, 1, Len(sorted) - 1), x),
                sorted[Len(sorted)])

\* list.sort(key=lambda x: x[1]): ascending and stable
RECURSIVE InsertByScore(_, _)
InsertByScore(sorted, x) ==
    IF sorted = <<>> THEN <<x>>
    ELSE IF sorted[Len(sorted)].score <= x.score THEN Append(sorted, x)
    ELSE Append(InsertByScore(SubSeq(sorted, 1, Len(sorted) - 1), x),
                sorted[Len(sorted)])

RECURSIVE SortFrom(_, _)
SortFrom(sorted, rest) ==
    IF rest = <<>> THEN sorted
    ELSE SortFrom(InsertByScore(sorted, Head(rest)), Tail(rest))

\* the merged list sorted with the largest score first
SortByScoreDescending(s) ==
    LET r == SortFrom(<<>>, s)
    IN  [i \in 1..Len(r) |-> r[Len(r) + 1 - i]]

\* the merged list left in arrival order
SortByScoreSkipped(s) == s

SortByScore(s) == SortFrom(<<>>, s)

\* the merged list returned whole
TopResultsUntruncated(all_results, k) == all_results

\* top_results = all_results[:k]
TopResults(all_results, k) == Prefix(all_results, k)

retrieve_hybrid_ranked(st, k, text_weight, image_weight, table_weight) ==
    LET all_results == WeightedResults(st, "text", k, text_weight)
                       \o WeightedResults(st, "image", k, image_weight)
                       \o WeightedResults(st, "table", k, table_weight)
    IN  [raised |-> FALSE,
         ranked |-> TopResults(SortByScore(all_results), k),
         searches |-> <<SearchCall("text", "similarity_search_with_score", k),
                        SearchCall("image", "similarity_search_with_score", k),
                        SearchCall("table", "similarity_search_with_score", k)>>]

\* the include flag not looked at
TryMmrIgnoringInclude(st, t, include, k, fetch_k, lambda_mult) ==
    LET r == max_marginal_relevance_search(st, t, k, fetch_k, lambda_mult)
    IN  IF ~r.raised THEN r.docs ELSE <<>>

\* lambda_mult handed on as the weight of diversity instead of relevance
TryMmrInvertedLambda(st, t, include, k, fetch_k, lambda_mult) ==
    LET r == max_marginal_relevance_search(st, t, k, fetch_k, LambdaOne - lambda_mult)
    IN  IF include /\ ~r.raised THEN r.docs ELSE <<>>

\* if include: try: results[...] = store.max_marginal_relevance_search(...)
TryMmr(st, t, include, k, fetch_k, lambda_mult) ==
    LET r == max_marginal_relevance_search(st, t, k, fetch_k, lambda_mult)
    IN  IF include /\ ~r.raised THEN r.docs ELSE <<>>

MmrCall(t, include, k) ==
    IF include THEN <<SearchCall(t, "max_marginal_relevance_search", k)>> ELSE <<>>

retrieve_mmr(st, k, fetch_k, lambda_mult, include_text, include_images, include_tables) ==
    [raised |-> FALSE,
     results |-> [text |-> TryMmr(st, "text", include_text, k, fetch_k, lambda_mult),
                  images |-> TryMmr(st, "image", include_images, k, fetch_k, lambda_mult),
                  tables |-> TryMmr(st, "table", include_tables, k, fetch_k, lambda_mult)],
     searches |-> MmrCall("text", include_text, k)
                  \o MmrCall("image", include_images, k)
                  \o MmrCall("table", include_tables, k)]

\* no try/except here: a raising search propagates to the caller
retrieve_by_type_only(st, type_, k) ==
    IF type_ \notin Types
    THEN [raised |-> TRUE, error |-> "ValueError", docs |-> <<>>, searches |-> <<>>]
    ELSE LET r == similarity_search(st, type_, k)
         IN  [raised |-> r.raised,
              error |-> IF r.raised THEN "Exception" ELSE None,
              docs |-> r.docs,
              searches |-> <<SearchCall(type_, "similarity_search", k)>>]

----------------------------------------------------------------------------
(* retrieve_multimodal *)

Methods == {"all", "hybrid", "mmr", "text_only", "image_only", "table_only"}

\* defaults of the keyword arguments; weights and lambda_mult in quarters
DefaultTextWeight == 2
DefaultImageWeight == 1
DefaultTableWeight == 1
DefaultLambdaMult == 2
FetchFactor == 3

\* the image entries appended to the tables group and the table entries to
\* the images group
GroupOfSwapped(ranked, t) ==
    LET u == CASE t = "image" -> "table" [] t = "table" -> "image" [] OTHER -> t
        IsU(x) == x.type = u
        sel == SelectSeq(ranked, IsU)
    IN  [i \in 1..Len(sel) |-> sel[i].doc]

\* the documents of the ranked entries tagged type t, in ranked order
GroupOf(ranked, t) ==
    LET IsT(x) == x.type = t
        sel == SelectSeq(ranked, IsT)
    IN  [i \in 1..Len(sel) |-> sel[i].doc]

GroupSizes(groups) == Len(groups.text) + Len(groups.images) + Len(groups.tables)

Returned(method, groups, ranked, total, searches) ==
    [raised |-> FALSE, error |-> None, method |-> method, results |-> groups,
     ranked_results |-> ranked, total_results |-> total, searches |-> searches]

Raised(method, error, searches) ==
    [raised |-> TRUE, error |-> error, method |-> method, results |-> EmptyGroups,
     ranked_results |-> <<>>, total_results |-> 0, searches |-> searches]

SingleType(st, method, type_, k) ==
    LET r == retrieve_by_type_only(st, type_, k)
        groups == [text |-> IF type_ = "text" THEN r.docs ELSE <<>>,
                   images |-> IF type_ = "image" THEN r.docs ELSE <<>>,
                   tables |-> IF type_ = "table" THEN r.docs ELSE <<>>]
    IN  IF r.raised
        THEN Raised(method, r.error, r.searches)
        ELSE Returned(method, groups, <<>>, Len(r.docs), r.searches)

\* half of k with no floor of 2
DefaultTypeKHalf(k) == k \div 2

\* kwargs.get("k_images", max(2, k // 2)): the default k of images and tables
DefaultTypeK(k) == Max(2, k \div 2)

\* an unknown method served as "all"
UnknownMethodServedAsAll(st, method, k) ==
    LET r == retrieve_all(st, k, Max(2, k \div 2), Max(2, k \div 2))
    IN  Returned(method, r.results, <<>>, GroupSizes(r.results), r.searches)

\* else: raise ValueError(f"Unknown method: {method}")
UnknownMethod(st, method, k) == Raised(method, "ValueError", <<>>)

retrieve_multimodal(st, method, k, kwargs) ==
    CASE method = "all" ->
            LET r == retrieve_all(st,
                                  Get(kwargs, "k_text", k),
                                  Get(kwargs, "k_images", DefaultTypeK(k)),
                                  Get(kwargs, "k_tables", DefaultTypeK(k)))
            IN  Returned(method, r.results, <<>>, GroupSizes(r.results), r.searches)
      [] method = "hybrid" ->
            LET r == retrieve_hybrid_ranked(st, k,
                                            Get(kwargs, "text_weight", DefaultTextWeight),
                                            Get(kwargs, "image_weight", DefaultImageWeight),
                                            Get(kwargs, "table_weight", DefaultTableWeight))
                groups == [text |-> GroupOf(r.ranked, "text"),
                           images |-> GroupOf(r.ranked, "image"),
                           tables |-> GroupOf(r.ranked, "table")]
            IN  Returned(method, groups, r.ranked, Len(r.ranked), r.searches)
      [] method = "mmr" ->
            LET r == retrieve_mmr(st, k,
                                  Get(kwargs, "fetch_k", k * FetchFactor),
                                  Get(kwargs, "lambda_mult", DefaultLambdaMult),
                                  Get(kwargs, "include_text", TRUE),
                                  Get(kwargs, "include_images", TRUE),
                                  Get(kwargs, "include_tables", TRUE))
            IN  Returned(method, r.results, <<>>, GroupSizes(r.results), r.searches)
      [] method = "text_only" -> SingleType(st, method, "text", k)
      [] method = "image_only" -> SingleType(st, method, "image", k)
      [] method = "table_only" -> SingleType(st, method, "table", k)
      [] OTHER -> UnknownMethod(st, method, k)

----------------------------------------------------------------------------
(* Retrieval requests: the state machine of specification Spec *)

NoReq == [op |-> "none"]
NoOut == [raised |-> FALSE]

Ks == 1..MaxK
Weights == {0, 1, 2}            \* 0, 0.25, 0.5
Lambdas == {0, 2, LambdaOne}    \* 0, 0.5, 1.0

NoKwargs == [x \in {} |-> 0]

\* a per-type k given for any subset of the three types
AllKwargs ==
    UNION {[keys -> {kk}] : keys \in SUBSET {"k_text", "k_images", "k_tables"}, kk \in Ks}

\* the three weights given, or none of them
HybridKwargs ==
    {NoKwargs} \cup [text_weight : Weights, image_weight : Weights, table_weight : Weights]

\* nothing given, or the selection parameters and the include flags
MmrKwargs(k) ==
    {NoKwargs}
    \cup [fetch_k : {k, k * FetchFactor}, lambda_mult : Lambdas,
          include_text : BOOLEAN, include_images : BOOLEAN, include_tables : BOOLEAN]

UnknownMethods == {"semantic"}

Init ==
    /\ store \in Stores
    /\ results = EmptyGroups
    /\ req = NoReq
    /\ out = NoOut
    /\ pc = "idle"

RetrieveRequest(method, k, kwargs) ==
    [op |-> "retrieve_multimodal", method |-> method, k |-> k, kwargs |-> kwargs]

RetrieveAll ==
    /\ pc = "idle"
    /\ \E k \in Ks : \E kwargs \in AllKwargs :
           /\ req' = RetrieveRequest("all", k, kwargs)
           /\ out' = retrieve_multimodal(store, "all", k, kwargs)
           /\ pc' = "done"
           /\ UNCHANGED <<store, results>>

RetrieveHybrid ==
    /\ pc = "idle"
    /\ \E k \in Ks : \E kwargs \in HybridKwargs :
           /\ req' = RetrieveRequest("hybrid", k, kwargs)
           /\ out' = retrieve_multimodal(store, "hybrid", k, kwargs)
           /\ pc' = "done"
           /\ UNCHANGED <<store, results>>

RetrieveMmr ==
    /\ pc = "idle"
    /\ \E k \in Ks : \E kwargs \in MmrKwargs(k) :
           /\ req' = RetrieveRequest("mmr", k, kwargs)
           /\ out' = retrieve_multimodal(store, "mmr", k, kwargs)
           /\ pc' = "done"
           /\ UNCHANGED <<store, results>>

RetrieveSingleType ==
    /\ pc = "idle"
    /\ \E k \in Ks : \E method \in {"text_only", "image_only", "table_only"} :
           /\ req' = RetrieveRequest(method, k, NoKwargs)
           /\ out' = retrieve_multimodal(store, method, k, NoKwargs)
           /\ pc' = "done"
           /\ UNCHANGED <<store, results>>

RetrieveUnknown ==
    /\ pc = "idle"
    /\ \E k \in Ks : \E method \in UnknownMethods :
           /\ req' = RetrieveRequest(method, k, NoKwargs)
           /\ out' = retrieve_multimodal(store, method, k, NoKwargs)
           /\ pc' = "done"
           /\ UNCHANGED <<store, results>>

Next ==
    \/ RetrieveAll
    \/ RetrieveHybrid
    \/ RetrieveMmr
    \/ RetrieveSingleType
    \/ RetrieveUnknown

Spec == Init /\ [][Next]_vars

----------------------------------------------------------------------------
(* Claims about retrieval, checked under Spec *)

Retrieved == pc = "done" /\ req.op = "retrieve_multimodal"

StoredDocs == Len(store.text.docs) + Len(store.image.docs) + Len(store.table.docs)

\* C1: in the sequence retrieve_hybrid_ranked returns, an item whose weighted
\* score is strictly smaller than another's stands before it.
C1_HybridMonotonicOrder ==
    (Retrieved /\ req.method = "hybrid") =>
        \A i, j \in 1..Len(out.ranked_results) :
            out.ranked_results[i].score < out.ranked_results[j].score => i < j

\* a table item overtakes a text item with a strictly larger weighted score
C1_Witness ==
    /\ Retrieved /\ req.method = "hybrid"
    /\ \E i, j \in 1..Len(out.ranked_results) :
        /\ i < j
        /\ out.ranked_results[i].type = "table"
        /\ out.ranked_results[j].type = "text"
        /\ out.ranked_results[i].score < out.ranked_results[j].score

\* C2: total_results is the number of items returned: the sizes of the three
\* groups, and under hybrid the length of ranked_results, which is at most k.
C2_TotalResults ==
    (Retrieved /\ ~out.raised) =>
        IF req.method = "hybrid"
        THEN /\ out.total_results = Len(out.ranked_results)
             /\ out.total_results <= req.k
        ELSE out.total_results = GroupSizes(out.results)

\* hybrid cut the candidates down to k
C2_Witness ==
    /\ Retrieved /\ req.method = "hybrid"
    /\ \A t \in Types : store[t].up
    /\ StoredDocs > req.k
    /\ out.total_results = req.k

\* the collections as they would be had each failing one answered with nothing
FailuresAsEmpty(st) ==
    [t \in Types |-> IF st[t].up THEN st[t] ELSE [up |-> TRUE, docs |-> <<>>]]

GroupKey(t) == CASE t = "text" -> "text" [] t = "image" -> "images" [] t = "table" -> "tables"

\* C7: under all, hybrid and mmr no failure of any subset of the collections
\* raises; a failing type contributes nothing, and what is returned is what
\* the succeeding collections alone give.
C7_FailSoftMulti ==
    (Retrieved /\ req.method \in {"all", "hybrid", "mmr"}) =>
        LET alone == retrieve_multimodal(FailuresAsEmpty(store), req.method, req.k, req.kwargs)
        IN  /\ ~out.raised
            /\ \A t \in Types : ~store[t].up => out.results[GroupKey(t)] = <<>>
            /\ \A t \in Types : \A i \in 1..Len(out.ranked_results) :
                   ~store[t].up => out.ranked_results[i].type # t
            /\ out.results = alone.results
            /\ out.ranked_results = alone.ranked_results
            /\ out.total_results = alone.total_results

\* a collection searched before the tables fails and the tables still arrive
C7_Witness ==
    /\ Retrieved /\ req.method \in {"all", "hybrid", "mmr"}
    /\ ~store.text.up \/ ~store.image.up
    /\ Len(out.results.tables) > 0

SingleMethods == {"text_only", "image_only", "table_only"}

\* C8: under text_only, image_only and table_only a failure of the queried
\* collection is caught: the call returns three empty groups and total 0.
C8_SingleTypeFailureCaught ==
    (Retrieved /\ req.method \in SingleMethods) =>
        /\ ~out.raised
        /\ (\E t \in Types : req.method = t \o "_only" /\ ~store[t].up) =>
               (out.results = EmptyGroups /\ out.total_results = 0)

\* C10: an unknown strategy name raises to the caller, and no search is
\* issued against any collection (none, so none repeated).
C10_UnknownMethodFailsFast ==
    (Retrieved /\ req.method \notin Methods) =>
        /\ out.raised
        /\ out.error = "ValueError"
        /\ out.searches = <<>>

\* an unknown strategy asked of collections that would have answered
C10_Witness ==
    /\ Retrieved /\ req.method \notin Methods
    /\ \A t \in Types : store[t].up /\ Len(store[t].docs) > 0
    /\ out.raised

----------------------------------------------------------------------------
(* get_unique_source_pdfs *)

MaxItems == 3       \* items of a retrieval result handed to the scan

\* Python truthiness of a string or None
Truthy(v) == v # None /\ v # ""

\* a or b
Or(a, b) == IF Truthy(a) THEN a ELSE b

\* metadata of retrieved documents: the keys the scan reads, present or not
PdfMetadata ==
    {[source_pdf_url |-> "u1", source_pdf_path |-> "p1",
      pdf_original_filename |-> "a.pdf", document_bucket |-> "docs"],
     [pdf_url |-> "u1", pdf_storage_path |-> "p2", pdf_original_filename |-> "b.pdf"],
     [source_pdf_url |-> "", pdf_url |-> "u2", source_pdf_path |-> "",
      pdf_storage_path |-> "p3", document_bucket |-> "docs2"],
     [source_pdf_url |-> "u2", pdf_url |-> "u1", pdf_original_filename |-> "c.pdf"],
     [pdf_original_filename |-> "d.pdf", source_pdf_path |-> "p4"],
     [source_pdf_url |-> "", pdf_storage_path |-> "p5"]}

GroupLengths(n) == {l \in [text : 0..n, images : 0..n, tables : 0..n] :
                        l.text + l.images + l.tables <= n}

\* retrieval results of at most n items whose documents carry metadata of M
ResultsOver(M, n) ==
    UNION {[text : [1..l.text -> [metadata : M]],
            images : [1..l.images -> [metadata : M]],
            tables : [1..l.tables -> [metadata : M]]] : l \in GroupLengths(n)}

pdf_url(doc) == Or(Get(doc.metadata, "source_pdf_url", None),
                   Get(doc.metadata, "pdf_url", None))

pdf_path(doc) == Or(Get(doc.metadata, "source_pdf_path", None),
                    Get(doc.metadata, "pdf_storage_path", None))

PdfEntry(doc) ==
    [url |-> pdf_url(doc),
     storage_path |-> Or(pdf_path(doc), ""),
     filename |-> Get(doc.metadata, "pdf_original_filename", ""),
     bucket |-> Get(doc.metadata, "document_bucket", "")]

KnownUrl(pdfs, url) == \E i \in 1..Len(pdfs) : pdfs[i].url = url

\* pdfs[pdf_url] = {...} without the "not in pdfs" test: the entry keeps its
\* place and takes the later item's fields
ScanDocOverwriting(pdfs, doc) ==
    IF ~Truthy(pdf_url(doc)) THEN pdfs
    ELSE IF KnownUrl(pdfs, pdf_url(doc))
         THEN [i \in 1..Len(pdfs) |->
                 IF pdfs[i].url = pdf_url(doc) THEN PdfEntry(doc) ELSE pdfs[i]]
         ELSE Append(pdfs, PdfEntry(doc))

\* if pdf_url and pdf_url not in pdfs: pdfs[pdf_url] = {...}
ScanDoc(pdfs, doc) ==
    IF Truthy(pdf_url(doc)) /\ ~KnownUrl(pdfs, pdf_url(doc))
    THEN Append(pdfs, PdfEntry(doc))
    ELSE pdfs

RECURSIVE ScanDocs(_, _)
ScanDocs(pdfs, docs) ==
    IF docs = <<>> THEN pdfs ELSE ScanDocs(ScanDoc(pdfs, Head(docs)), Tail(docs))

\* for type_key in ["text", "images", "tables"]: for doc in results[type_key]
ScanOrder(groups) == groups.text \o groups.images \o groups.tables

\* list(pdfs.values()): a dict keeps insertion order
get_unique_source_pdfs(groups) == ScanDocs(<<>>, ScanOrder(groups))

----------------------------------------------------------------------------
(* Specification SpecPdf: get_unique_source_pdfs applied to a retrieval result *)

NoStores == [t \in Types |-> [up |-> TRUE, docs |-> <<>>]]

InitPdf ==
    /\ store = NoStores
    /\ results \in ResultsOver(PdfMetadata, MaxItems)
    /\ req = NoReq
    /\ out = NoOut
    /\ pc = "idle"

GetUniqueSourcePdfs ==
    /\ pc = "idle"
    /\ req' = [op |-> "get_unique_source_pdfs"]
    /\ out' = [raised |-> FALSE, pdfs |-> get_unique_source_pdfs(results)]
    /\ pc' = "done"
    /\ UNCHANGED <<store, results>>

NextPdf == GetUniqueSourcePdfs

SpecPdf == InitPdf /\ [][NextPdf]_vars

----------------------------------------------------------------------------
(* Claims about get_unique_source_pdfs, checked under SpecPdf *)

Scanned == pc = "done" /\ req.op = "get_unique_source_pdfs"

\* position in the scan of the first item that references url
FirstSeen(url) ==
    SetMin({i \in 1..Len(ScanOrder(results)) : pdf_url(ScanOrder(results)[i]) = url})

\* C3: get_unique_source_pdfs returns one entry per distinct source PDF URL
\* the items reference, in first-seen order of the scan text, images, tables,
\* each with the storage path, filename and bucket of the first item seen
\* with that URL.
C3_UniqueSourcePdfs ==
    Scanned =>
        LET items == ScanOrder(results)
            urls == {pdf_url(items[i]) : i \in 1..Len(items)}
            referenced == {u \in urls : Truthy(u)}
        IN  /\ {out.pdfs[n].url : n \in 1..Len(out.pdfs)} = referenced
            /\ Len(out.pdfs) = Cardinality(referenced)
            /\ \A m, n \in 1..Len(out.pdfs) :
                   m < n => FirstSeen(out.pdfs[m].url) < FirstSeen(out.pdfs[n].url)
            /\ \A n \in 1..Len(out.pdfs) :
                   LET first == items[FirstSeen(out.pdfs[n].url)]
                   IN  /\ out.pdfs[n].storage_path = Or(pdf_path(first), "")
                       /\ out.pdfs[n].filename =
                              Get(first.metadata, "pdf_original_filename", "")
                       /\ out.pdfs[n].bucket = Get(first.metadata, "document_bucket", "")

\* three items over two groups reference two URLs, one of them twice with
\* different filenames
C3_Witness ==
    /\ Scanned
    /\ Len(results.text) = 2 /\ Len(results.images) = 1
    /\ pdf_url(results.text[1]) = "u1"
    /\ pdf_url(results.text[2]) = "u2"
    /\ pdf_url(results.images[1]) = "u1"
    /\ results.images[1].metadata # results.text[1].metadata
    /\ Len(out.pdfs) = 2
    /\ out.pdfs[1].filename = "a.pdf"

----------------------------------------------------------------------------
(* MultimodalGenerator: context formatting *)

(* A text is a sequence of characters; a message built by an f-string is the *)
(* sequence of its pieces.  A page number is the string the f-string prints. *)

\* _escape_curly_braces: text.replace("{", "{{").replace("}", "}}")
RECURSIVE _escape_curly_braces(_)
_escape_curly_braces(text) ==
    IF text = <<>> THEN text
    ELSE (IF Head(text) \in {"{", "}"} THEN <<Head(text), Head(text)>> ELSE <<Head(text)>>)
         \o _escape_curly_braces(Tail(text))

\* what fetching and analysing one image does in this request
FetchFails == [fetched |-> FALSE, vision_raises |-> FALSE, analysis |-> <<>>]
VisionRaises == [fetched |-> TRUE, vision_raises |-> TRUE, analysis |-> <<>>]
VisionEmpty == [fetched |-> TRUE, vision_raises |-> FALSE, analysis |-> <<>>]
VisionAnswers == [fetched |-> TRUE, vision_raises |-> FALSE, analysis |-> <<"{", "v", "}">>]

ImageOutcomes == {FetchFails, VisionRaises, VisionEmpty, VisionAnswers}

\* language.lower() == "indonesian"
IsIndonesian(language) == language \in {"Indonesian", "indonesian"}

\* an external call of the generator, as logged
FetchCall(i, url) == [op |-> "fetch", image |-> i, arg |-> url]
VisionCall(i, language) ==
    [op |-> "vision", image |-> i,
     arg |-> IF IsIndonesian(language) THEN "prompt-id" ELSE "prompt-en"]

\* a failure handed back as an error text instead of None
_analyze_image_with_vision_error_text(i, image_url, language, outcome) ==
    [analysis |-> IF outcome.fetched /\ ~outcome.vision_raises
                  THEN outcome.analysis ELSE <<"E", "r", "r", "o", "r">>,
     is_none |-> FALSE,
     calls |-> <<FetchCall(i, image_url)>>
               \o (IF outcome.fetched THEN <<VisionCall(i, language)>> ELSE <<>>)]

\* the vision model called whether or not the image was fetched
_analyze_image_with_vision_unchecked_fetch(i, image_url, language, outcome) ==
    [analysis |-> IF outcome.fetched /\ ~outcome.vision_raises
                  THEN outcome.analysis ELSE <<>>,
     is_none |-> ~outcome.fetched \/ outcome.vision_raises,
     calls |-> <<FetchCall(i, image_url), VisionCall(i, language)>>]

\* _analyze_image_with_vision: the analysis, or None after a failed fetch, an
\* empty image or a vision error
_analyze_image_with_vision(i, image_url, language, outcome) ==
    [analysis |-> IF outcome.fetched /\ ~outcome.vision_raises
                  THEN outcome.analysis ELSE <<>>,
     is_none |-> ~outcome.fetched \/ outcome.vision_raises,
     calls |-> <<FetchCall(i, image_url)>>
               \o (IF outcome.fetched THEN <<VisionCall(i, language)>> ELSE <<>>)]

\* one piece appended to context_parts
Part(kind, marker, page, label, content) ==
    [kind |-> kind, marker |-> marker, page |-> page, label |-> label, content |-> content]

NoMarker == <<"", 0>>

TextParts(docs) ==
    IF docs = <<>> THEN <<>>
    ELSE <<Part("header", NoMarker, "", "TEXT CONTENT", <<>>)>>
         \o [i \in 1..Len(docs) |->
               Part("text", <<"TEXT", i>>,
                    Get(docs[i].metadata, "chunk_page_number", "N/A"), "",
                    _escape_curly_braces(docs[i].page_content))]

\* the call's own use_vision flag ignored
UsesVisionIgnoringCall(doc, use_vision, config_use_vision) ==
    Get(doc.metadata, "supabase_url", "") # "" /\ config_use_vision

\* the vision branch is taken for image i
UsesVision(doc, use_vision, config_use_vision) ==
    use_vision /\ Get(doc.metadata, "supabase_url", "") # "" /\ config_use_vision

\* the pieces and the external calls of image i
ImageBlock(i, doc, use_vision, config_use_vision, language, outcome) ==
    LET url == Get(doc.metadata, "supabase_url", "")
        page == Get(doc.metadata, "img_page_number", "N/A")
        stored_desc == _escape_curly_braces(doc.page_content)
        v == _analyze_image_with_vision(i, url, language, outcome)
        vision == UsesVision(doc, use_vision, config_use_vision)
    IN  [parts |->
            <<Part("image", <<"IMAGE", i>>, page, "", <<>>),
              IF vision
              THEN IF ~v.is_none /\ v.analysis # <<>>
                   THEN Part("analysis", <<"IMAGE", i>>, page, "Real-time", v.analysis)
                   ELSE Part("analysis", <<"IMAGE", i>>, page, "Stored", stored_desc)
              ELSE Part("analysis", <<"IMAGE", i>>, page, "", stored_desc),
              Part("url", <<"IMAGE", i>>, page, url, <<>>)>>,
         calls |-> IF vision THEN v.calls ELSE <<>>]

\* the images analysed from the last to the first
RECURSIVE ImageBlocksLastFirst(_, _, _, _, _, _)
ImageBlocksLastFirst(i, docs, use_vision, config_use_vision, language, outcomes) ==
    IF i > Len(docs) THEN [parts |-> <<>>, calls |-> <<>>]
    ELSE LET b == ImageBlock(i, docs[i], use_vision, config_use_vision, language, outcomes[i])
             rest == ImageBlocksLastFirst(i + 1, docs, use_vision, config_use_vision,
                                          language, outcomes)
         IN  [parts |-> b.parts \o rest.parts, calls |-> rest.calls \o b.calls]

RECURSIVE ImageBlocks(_, _, _, _, _, _)
ImageBlocks(i, docs, use_vision, config_use_vision, language, outcomes) ==
    IF i > Len(docs) THEN [parts |-> <<>>, calls |-> <<>>]
    ELSE LET b == ImageBlock(i, docs[i], use_vision, config_use_vision, language, outcomes[i])
             rest == ImageBlocks(i + 1, docs, use_vision, config_use_vision, language, outcomes)
         IN  [parts |-> b.parts \o rest.parts, calls |-> b.calls \o rest.calls]

TableParts(docs) ==
    IF docs = <<>> THEN <<>>
    ELSE <<Part("header", NoMarker, "", "TABLES", <<>>)>>
         \o [i \in 1..Len(docs) |->
               Part("table", <<"TABLE", i>>,
                    Get(docs[i].metadata, "table_page_number", "N/A"),
                    IF Get(docs[i].metadata, "has_html", FALSE) THEN "HTML" ELSE "Plain Text",
                    _escape_curly_braces(docs[i].page_content))]

\* _format_multimodal_context: the context (its pieces, joined by newlines in
\* the program) and the external calls made while building it
_format_multimodal_context(groups, use_vision, config_use_vision, language, outcomes) ==
    LET images == ImageBlocks(1, groups.images, use_vision, config_use_vision,
                              language, outcomes)
    IN  [context |-> TextParts(groups.text)
                     \o (IF groups.images = <<>> THEN <<>>
                         ELSE <<Part("header", NoMarker, "", "IMAGES", <<>>)>> \o images.parts)
                     \o TableParts(groups.tables),
         calls |-> images.calls]

\* a context without text content taken for an empty one
IsBlankWithoutText(context) == \A n \in 1..Len(context) : context[n].kind # "text"

\* the empty-context test left out
IsBlankNever(context) == FALSE

\* not context.strip(): every piece appended holds a non-blank label or marker
IsBlank(context) == context = <<>>

----------------------------------------------------------------------------
(* MultimodalGenerator: the three generation modes *)

\* the canned answers for an empty context, as the source spells them
NoContextSimple ==
    "Maaf, saya tidak menemukan informasi yang relevan untuk menjawab pertanyaan Anda."
NoContextCitations == "Maaf, saya tidak menemukan informasi yang relevan."
NoContextStructured == "Tidak ada informasi yang ditemukan."

TextPreviewLen == 200
TablePreviewLen == 300
Ellipsis == <<".", ".", ".">>

\* d with d[key] = val added
With(d, key, val) == [x \in DOMAIN d \cup {key} |-> IF x = key THEN val ELSE d[x]]

\* the text sources numbered from 0
TextSourcesZeroIndexed(docs) ==
    [i \in 1..Len(docs) |->
        [type |-> "text", id |-> <<"TEXT", i - 1>>,
         content_preview |-> Prefix(docs[i].page_content, TextPreviewLen) \o Ellipsis,
         page |-> Get(docs[i].metadata, "chunk_page_number", "N/A"),
         metadata |-> docs[i].metadata]]

TextSources(docs) ==
    [i \in 1..Len(docs) |->
        [type |-> "text", id |-> <<"TEXT", i>>,
         content_preview |-> Prefix(docs[i].page_content, TextPreviewLen) \o Ellipsis,
         page |-> Get(docs[i].metadata, "chunk_page_number", "N/A"),
         metadata |-> docs[i].metadata]]

ImageSources(docs, config) ==
    [i \in 1..Len(docs) |->
        [type |-> "image", id |-> <<"IMAGE", i>>,
         description |-> docs[i].page_content,
         url |-> Get(docs[i].metadata, "supabase_url", ""),
         page |-> Get(docs[i].metadata, "img_page_number", "N/A"),
         analyzed_with_vision |-> config.use_vision,
         metadata |-> docs[i].metadata]]

TableSources(docs) ==
    [i \in 1..Len(docs) |->
        [type |-> "table", id |-> <<"TABLE", i>>,
         content_preview |-> Prefix(docs[i].page_content, TablePreviewLen) \o Ellipsis,
         page |-> Get(docs[i].metadata, "table_page_number", "N/A"),
         has_html |-> Get(docs[i].metadata, "has_html", FALSE),
         metadata |-> docs[i].metadata]]

_extract_sources(groups, config) ==
    TextSources(groups.text) \o ImageSources(groups.images, config)
    \o TableSources(groups.tables)

_extract_sources_with_ids(groups, config) == _extract_sources(groups, config)

\* chain.invoke({"context": context, "query": escaped_query})
InvokeLlm(mode, context, query) ==
    [op |-> "llm", image |-> 0,
     arg |-> [mode |-> mode, context |-> context, query |-> _escape_curly_braces(query)]]

\* the fields every successful answer carries
Answered(llm, config, language) ==
    [answer |-> <<llm.text>>,
     has_context |-> TRUE,
     model |-> config.model,
     vision_model |-> IF config.use_vision THEN config.vision_model ELSE None,
     language |-> language]

\* the failure left to generate_answer's handler, which reports no context
GenerationFailedUncaught(prefix, error) ==
    [answer |-> <<"Maaf, terjadi error: ", error>>, has_context |-> FALSE, error |-> error]

\* a failed generation answered with a blank text
GenerationFailedBlank(prefix, error) ==
    [answer |-> <<"">>, has_context |-> TRUE, error |-> error]

\* except Exception as e around chain.invoke: the result of a failed generation
GenerationFailed(prefix, error) ==
    [answer |-> <<prefix, error>>, has_context |-> TRUE, error |-> error]

SourcesCount(groups) ==
    [text |-> Len(groups.text), images |-> Len(groups.images), tables |-> Len(groups.tables)]

generate_simple(query, groups, include_sources, language, config, outcomes, llm) ==
    LET f == _format_multimodal_context(groups, config.use_vision, config.use_vision,
                                        language, outcomes)
        result == With(Answered(llm, config, language), "sources_count", SourcesCount(groups))
    IN  IF IsBlank(f.context)
        THEN [value |-> [answer |-> <<NoContextSimple>>, has_context |-> FALSE,
                         sources |-> <<>>],
              calls |-> f.calls]
        ELSE IF llm.raises
        THEN [value |-> GenerationFailed("Maaf, terjadi error saat generate jawaban: ",
                                         llm.error),
              calls |-> Append(f.calls, InvokeLlm("simple", f.context, query))]
        ELSE [value |-> IF include_sources
                        THEN With(result, "sources", _extract_sources(groups, config))
                        ELSE result,
              calls |-> Append(f.calls, InvokeLlm("simple", f.context, query))]

generate_with_citations(query, groups, language, config, outcomes, llm) ==
    LET f == _format_multimodal_context(groups, config.use_vision, config.use_vision,
                                        language, outcomes)
    IN  IF IsBlank(f.context)
        THEN [value |-> [answer |-> <<NoContextCitations>>, has_context |-> FALSE,
                         sources |-> <<>>],
              calls |-> f.calls]
        ELSE IF llm.raises
        THEN [value |-> GenerationFailed("Error: ", llm.error),
              calls |-> Append(f.calls, InvokeLlm("citations", f.context, query))]
        ELSE [value |-> With(Answered(llm, config, language), "sources",
                             _extract_sources_with_ids(groups, config)),
              calls |-> Append(f.calls, InvokeLlm("citations", f.context, query))]

generate_structured(query, groups, language, config, outcomes, llm) ==
    LET f == _format_multimodal_context(groups, config.use_vision, config.use_vision,
                                        language, outcomes)
    IN  IF IsBlank(f.context)
        THEN [value |-> [answer |-> <<NoContextStructured>>, has_context |-> FALSE],
              calls |-> f.calls]
        ELSE IF llm.raises
        THEN [value |-> GenerationFailed("Error: ", llm.error),
              calls |-> Append(f.calls, InvokeLlm("structured", f.context, query))]
        ELSE [value |-> With(Answered(llm, config, language), "sources",
                             _extract_sources(groups, config)),
              calls |-> Append(f.calls, InvokeLlm("structured", f.context, query))]

GenerationMethods == {"simple", "citations", "structured"}

\* except Exception as e: the error becomes an ordinary result
CaughtByGenerateAnswer(error) ==
    [raised |-> FALSE,
     value |-> [answer |-> <<"Maaf, terjadi error: ", error>>, has_context |-> FALSE,
                error |-> error],
     calls |-> <<>>]

generate_answer(query, groups, config, method, language, include_sources, outcomes, llm) ==
    LET r == CASE method = "simple" ->
                    generate_simple(query, groups, include_sources, language, config,
                                    outcomes, llm)
               [] method = "citations" ->
                    generate_with_citations(query, groups, language, config, outcomes, llm)
               [] method = "structured" ->
                    generate_structured(query, groups, language, config, outcomes, llm)
               [] OTHER -> [value |-> <<>>, calls |-> <<>>]
    IN  IF method \in GenerationMethods
        THEN [raised |-> FALSE, value |-> r.value, calls |-> r.calls]
        ELSE CaughtByGenerateAnswer("Unknown method: " \o method)

----------------------------------------------------------------------------
(* The query endpoint *)

NoContextEndpoint ==
    "Maaf, tidak ada informasi relevan yang ditemukan untuk pertanyaan Anda."

ZeroCounts == [text |-> 0, images |-> 0, tables |-> 0]

\* QueryRequest: the fields as validated; set_default_k gives an omitted
\* per-type k the value of k, and an omitted use_vision stays absent
QueryRequest(given) ==
    LET k == Get(given, "k", 5)
        fields ==
            [query |-> given.query,
             retrieval_method |-> Get(given, "retrieval_method", "all"),
             generation_method |-> Get(given, "generation_method", "simple"),
             language |-> Get(given, "language", "Indonesian"),
             k |-> k,
             k_text |-> Get(given, "k_text", k),
             k_images |-> Get(given, "k_images", k),
             k_tables |-> Get(given, "k_tables", k),
             text_weight |-> Get(given, "text_weight", DefaultTextWeight),
             image_weight |-> Get(given, "image_weight", DefaultImageWeight),
             table_weight |-> Get(given, "table_weight", DefaultTableWeight),
             lambda_mult |-> Get(given, "lambda_mult", DefaultLambdaMult),
             include_sources |-> Get(given, "include_sources", TRUE),
             include_source_pdfs |-> Get(given, "include_source_pdfs", TRUE)]
    IN  IF "use_vision" \in DOMAIN given
        THEN With(fields, "use_vision", given.use_vision)
        ELSE fields

\* the collections as this request finds them: those of down raise
Failing(st, down) == [t \in Types |-> [up |-> t \notin down, docs |-> st[t].docs]]

\* retrieval_kwargs, without k (passed as the parameter k)
retrieval_kwargs(request) ==
    CASE request.retrieval_method = "all" ->
            [k_text |-> request.k_text, k_images |-> request.k_images,
             k_tables |-> request.k_tables]
      [] request.retrieval_method = "hybrid" ->
            [text_weight |-> request.text_weight, image_weight |-> request.image_weight,
             table_weight |-> request.table_weight]
      [] request.retrieval_method = "mmr" ->
            [lambda_mult |-> request.lambda_mult, fetch_k |-> request.k * FetchFactor]
      [] OTHER -> NoKwargs

\* except Exception: raise HTTPException(status_code=500, ...)
QueryFailed(error, calls) ==
    [raised |-> TRUE, status_code |-> 500, error |-> error, calls |-> calls,
     generated |-> FALSE]

QueryResponse(value, calls, generated) ==
    [raised |-> FALSE, status_code |-> 200, value |-> value, calls |-> calls,
     generated |-> generated]

query_documents(request, settings, st, outcomes, llm) ==
    LET retrieval_result == retrieve_multimodal(st, request.retrieval_method, request.k,
                                                retrieval_kwargs(request))
        groups == retrieval_result.results
        total_found == GroupSizes(groups)
        source_pdfs == IF request.include_source_pdfs
                       THEN get_unique_source_pdfs(groups) ELSE <<>>
        use_vision == Get(request, "use_vision", settings.USE_VISION)
        gen_config == [use_vision |-> use_vision, model |-> settings.LLM_MODEL,
                       vision_model |-> settings.VISION_MODEL]
        answer_result == generate_answer(request.query, groups, gen_config,
                                         request.generation_method, request.language,
                                         request.include_sources, outcomes, llm)
    IN  IF retrieval_result.raised
        THEN QueryFailed(retrieval_result.error, retrieval_result.searches)
        ELSE IF total_found = 0
        THEN QueryResponse([status |-> "success",
                            answer |-> <<NoContextEndpoint>>,
                            language |-> request.language,
                            vision_used |-> FALSE,
                            sources_count |-> ZeroCounts,
                            has_sources |-> TRUE,
                            sources |-> <<>>,
                            has_source_pdfs |-> request.include_source_pdfs,
                            source_pdfs |-> source_pdfs,
                            total_results |-> 0],
                           retrieval_result.searches, FALSE)
        ELSE QueryResponse([status |-> "success",
                            answer |-> Get(answer_result.value, "answer", <<"">>),
                            language |-> request.language,
                            vision_used |-> use_vision /\ Len(groups.images) > 0,
                            sources_count |-> Get(answer_result.value, "sources_count",
                                                  ZeroCounts),
                            has_sources |-> request.include_sources,
                            sources |-> IF request.include_sources
                                        THEN Get(answer_result.value, "sources", <<>>)
                                        ELSE <<>>,
                            has_source_pdfs |-> request.include_source_pdfs,
                            source_pdfs |-> source_pdfs,
                            total_results |-> total_found],
                           retrieval_result.searches \o answer_result.calls, TRUE)

----------------------------------------------------------------------------
(* Specification SpecGen: answer generation and the query endpoint *)

\* documents as the generator reads them: content and metadata
TextDocs ==
    {[page_content |-> <<"a">>, metadata |-> [chunk_page_number |-> "4"]],
     [page_content |-> <<"{", "a", "}">>, metadata |-> NoKwargs]}

ImageDocs ==
    {[page_content |-> <<"{", "d", "}">>,
      metadata |-> [supabase_url |-> "https://img/1", img_page_number |-> "2"]],
     [page_content |-> <<"d">>, metadata |-> NoKwargs]}

TableDocs ==
    {[page_content |-> <<"<", "t", ">">>,
      metadata |-> [table_page_number |-> "5", has_html |-> TRUE]],
     [page_content |-> <<"t", "{", "}">>, metadata |-> NoKwargs]}

GenResults(n) ==
    UNION {[text : [1..l.text -> TextDocs],
            images : [1..l.images -> ImageDocs],
            tables : [1..l.tables -> TableDocs]] : l \in GroupLengths(n)}

Stored(t, docs) ==
    [up |-> TRUE,
     docs |-> [i \in 1..Len(docs) |->
                 [id |-> <<t, i>>, score |-> 0, page_content |-> docs[i].page_content,
                  metadata |-> docs[i].metadata]]]

\* the collections holding exactly the documents of groups
StoreHolding(groups) ==
    [text |-> Stored("text", groups.text),
     image |-> Stored("image", groups.images),
     table |-> Stored("table", groups.tables)]

Languages == {"Indonesian", "English"}

Queries == {<<"q">>, <<"{", "q", "}">>}

LlmAnswers == [raises |-> FALSE, text |-> "ANSWER", error |-> ""]
LlmRaises == [raises |-> TRUE, text |-> "", error |-> "llm unavailable"]
LlmOutcomes == {LlmAnswers, LlmRaises}

Configs == [use_vision : BOOLEAN, model : {"gpt-4o-mini"}, vision_model : {"gpt-4o"}]


\* what happens to each image of docs: any outcome for an image the vision
\* branch processes, and no choice for an image it does not reach
OutcomesFor(docs, use_vision, config_use_vision) ==
    {o \in [1..Len(docs) -> ImageOutcomes] :
        \A i \in 1..Len(docs) :
            ~UsesVision(docs[i], use_vision, config_use_vision) => o[i] = VisionAnswers}

UnknownModes == {"summary"}

InitGen ==
    /\ results \in GenResults(MaxItems)
    /\ store = StoreHolding(results)
    /\ req = NoReq
    /\ out = NoOut
    /\ pc = "idle"

GenerateRequest(query, method, language, include_sources, config, outcomes, llm) ==
    [op |-> "generate_answer", query |-> query, method |-> method, language |-> language,
     include_sources |-> include_sources, config |-> config, outcomes |-> outcomes,
     llm |-> llm]

GenerateAnswer ==
    /\ pc = "idle"
    /\ \E query \in Queries, method \in GenerationMethods, language \in Languages,
          include_sources \in BOOLEAN, config \in Configs, llm \in LlmOutcomes :
           \E outcomes \in OutcomesFor(results.images, config.use_vision, config.use_vision) :
               /\ req' = GenerateRequest(query, method, language, include_sources, config,
                                         outcomes, llm)
               /\ out' = generate_answer(query, results, config, method, language,
                                         include_sources, outcomes, llm)
               /\ pc' = "done"
               /\ UNCHANGED <<store, results>>

GenerateUnknownMode ==
    /\ pc = "idle"
    /\ \E query \in Queries, method \in UnknownModes, language \in Languages,
          config \in Configs :
           LET outcomes == [i \in 1..Len(results.images) |-> VisionAnswers]
           IN  /\ req' = GenerateRequest(query, method, language, TRUE, config, outcomes,
                                         LlmAnswers)
               /\ out' = generate_answer(query, results, config, method, language, TRUE,
                                         outcomes, LlmAnswers)
               /\ pc' = "done"
               /\ UNCHANGED <<store, results>>

\* _format_multimodal_context called with its own use_vision argument
FormatContext ==
    /\ pc = "idle"
    /\ \E use_vision \in BOOLEAN, config \in Configs, language \in Languages :
           \E outcomes \in OutcomesFor(results.images, use_vision, config.use_vision) :
               LET f == _format_multimodal_context(results, use_vision, config.use_vision,
                                                   language, outcomes)
               IN  /\ req' = [op |-> "_format_multimodal_context", use_vision |-> use_vision,
                              config |-> config, language |-> language,
                              outcomes |-> outcomes]
                   /\ out' = [raised |-> FALSE, value |-> f.context, calls |-> f.calls]
                   /\ pc' = "done"
                   /\ UNCHANGED <<store, results>>

\* the requests the endpoint is driven with: the strategy, the mode, the
\* language, k and the vision override vary, the other fields keep their defaults
QueryRequests ==
    {QueryRequest(g) : g \in
        [query : {<<"q">>}, retrieval_method : Methods, generation_method : GenerationMethods,
         language : Languages, k : Ks]
        \cup [query : {<<"q">>}, retrieval_method : Methods,
              generation_method : GenerationMethods, language : Languages, k : Ks,
              use_vision : {FALSE}]}

\* every image meets the same outcome
UniformOutcomes(docs) == {[i \in 1..Len(docs) |-> o] : o \in {FetchFails, VisionAnswers}}

QueryDocuments ==
    /\ pc = "idle"
    /\ \E request \in QueryRequests, down \in {{}, Types} :
           \E outcomes \in UniformOutcomes(store.image.docs) :
               LET settings == [USE_VISION |-> TRUE, LLM_MODEL |-> "gpt-4o-mini",
                                VISION_MODEL |-> "gpt-4o"]
               IN  /\ req' = [op |-> "query_documents", request |-> request,
                              settings |-> settings, down |-> down, outcomes |-> outcomes]
                   /\ out' = query_documents(request, settings, Failing(store, down),
                                             outcomes, LlmAnswers)
                   /\ pc' = "done"
                   /\ UNCHANGED <<store, results>>

NextGen ==
    \/ GenerateAnswer
    \/ GenerateUnknownMode
    \/ FormatContext
    \/ QueryDocuments

SpecGen == InitGen /\ [][NextGen]_vars

----------------------------------------------------------------------------
(* Claims about generation, checked under SpecGen *)

Generated == pc = "done" /\ req.op = "generate_answer"
Formatted == pc = "done" /\ req.op = "_format_multimodal_context"
Queried == pc = "done" /\ req.op = "query_documents"

AllEmpty(groups) == groups.text = <<>> /\ groups.images = <<>> /\ groups.tables = <<>>

\* the external calls of kind op among calls
CallsOf(calls, ops) == {n \in 1..Len(calls) : calls[n].op \in ops}

\* C4: with all three groups empty, generate_answer returns has_context =
\* false in each mode and invokes neither the language model nor the vision
\* model; the query endpoint returns its canned answer without calling
\* generate_answer when the retrieved total is zero.
C4_EmptyInputNoModelCall ==
    /\ (Generated /\ req.method \in GenerationMethods /\ AllEmpty(results)) =>
           /\ ~out.raised
           /\ out.value.has_context = FALSE
           /\ CallsOf(out.calls, {"llm", "vision", "fetch"}) = {}
    /\ (Queried /\ ~out.raised /\ out.value.total_results = 0) =>
           /\ out.value.answer = <<NoContextEndpoint>>
           /\ ~out.generated
           /\ CallsOf(out.calls, {"llm", "vision", "fetch"}) = {}

\* generate_answer called on three empty groups with vision enabled
C4_Witness ==
    /\ Generated /\ req.method = "structured" /\ AllEmpty(results)
    /\ req.config.use_vision
    /\ ~req.llm.raises
    /\ out.value.has_context = FALSE

\* the endpoint finds nothing although the language model would answer
C4_WitnessEndpoint ==
    /\ Queried /\ ~out.raised /\ out.value.total_results = 0
    /\ req.request.retrieval_method = "hybrid"
    /\ Len(store.text.docs) > 0

IndonesianMessages ==
    {NoContextSimple, NoContextCitations, NoContextStructured, NoContextEndpoint}

\* C5: the fixed answer for three empty groups is in the requested language:
\* the Indonesian message for an Indonesian request and an English message
\* for an English request, in every mode.
C5_NoContextInRequestedLanguage ==
    (Generated /\ req.method \in GenerationMethods /\ AllEmpty(results)) =>
        (IsIndonesian(req.language) <=> out.value.answer[1] \in IndonesianMessages)

\* the analysis piece of image i in a formatted context
AnalysisOf(context, i) ==
    {n \in 1..Len(context) :
        context[n].kind = "analysis" /\ context[n].marker = <<"IMAGE", i>>}

\* every image's block holds the stored description (escaped for the
\* template), not a real-time analysis
StoredDescriptions(context, images) ==
    \A i \in 1..Len(images) :
        /\ Cardinality(AnalysisOf(context, i)) = 1
        /\ \A n \in AnalysisOf(context, i) :
               /\ context[n].label # "Real-time"
               /\ context[n].content = _escape_curly_braces(images[i].page_content)

\* C6: with vision disabled, in the generator's configuration or for the
\* call, formatting the context fetches no image and calls no vision model,
\* and every image's block holds the stored description.
C6_VisionDisabledNoFetch ==
    /\ (Formatted /\ (~req.use_vision \/ ~req.config.use_vision)) =>
           /\ CallsOf(out.calls, {"fetch", "vision"}) = {}
           /\ StoredDescriptions(out.value, results.images)
    /\ (Generated /\ req.method \in GenerationMethods /\ ~req.config.use_vision) =>
           /\ CallsOf(out.calls, {"fetch", "vision"}) = {}
           /\ \A n \in CallsOf(out.calls, {"llm"}) :
                  StoredDescriptions(out.calls[n].arg.context, results.images)

\* vision is enabled in the configuration and disabled for the call, and an
\* image with a URL, whose analysis would have succeeded, is formatted
C6_Witness ==
    /\ Formatted /\ req.config.use_vision /\ ~req.use_vision
    /\ \E i \in 1..Len(results.images) :
        /\ Get(results.images[i].metadata, "supabase_url", "") # ""
        /\ req.outcomes[i] = VisionAnswers
        /\ \E n \in AnalysisOf(out.value, i) :
               out.value[n].content = _escape_curly_braces(results.images[i].page_content)

\* C9: an unknown generation mode propagates from generate_answer to the
\* caller as a thrown error.
C9_UnknownModeRaises ==
    (Generated /\ req.method \notin GenerationMethods) => out.raised

\* the answer text holds piece
Embeds(answer, piece) == \E n \in 1..Len(answer) : answer[n] = piece

\* C11: when the language model fails on a non-empty context, each mode
\* returns a result whose answer embeds the error message, whose error field
\* is the message and whose has_context is true; generate_answer raises
\* nothing.
C11_LlmFailureCaught ==
    (Generated /\ req.method \in GenerationMethods /\ ~AllEmpty(results)
               /\ req.llm.raises) =>
        /\ ~out.raised
        /\ "error" \in DOMAIN out.value
        /\ out.value.error = req.llm.error
        /\ Embeds(out.value.answer, req.llm.error)
        /\ out.value.has_context = TRUE
        /\ Cardinality(CallsOf(out.calls, {"llm"})) = 1

\* the language model fails in citations mode on a context of two groups
C11_Witness ==
    /\ Generated /\ req.method = "citations" /\ req.llm.raises
    /\ results.text # <<>> /\ results.tables # <<>>
    /\ out.value.has_context = TRUE
    /\ Embeds(out.value.answer, req.llm.error)

\* the answer text, the concatenation of its pieces, is not the empty string
NonEmptyText(answer) == \E n \in 1..Len(answer) : answer[n] # ""

\* some image of the call had the outcome o
SomeImage(o) == \E i \in 1..Len(req.outcomes) : req.outcomes[i] = o

C12_WitnessEmpty ==
    /\ Generated /\ req.method = "structured" /\ AllEmpty(results)
    /\ NonEmptyText(out.value.answer)

\* C13: every successful generate_answer result, in each of the modes
\* simple, citations and structured, carries sources_count equal to the sizes
\* of the text, images and tables groups it was given, and the query endpoint
\* reports the same counts.
C13_SourcesCountInEveryMode ==
    /\ (Generated /\ req.method \in GenerationMethods /\ ~AllEmpty(results)
                  /\ ~req.llm.raises) =>
           /\ "sources_count" \in DOMAIN out.value
           /\ out.value.sources_count = SourcesCount(results)
    /\ (Queried /\ ~out.raised /\ out.generated) =>
           out.value.total_results =
               out.value.sources_count.text + out.value.sources_count.images
               + out.value.sources_count.tables

----------------------------------------------------------------------------
(* Specification SpecMmr: max-marginal-relevance retrieval over collections *)
(* deep enough for the diversity term to reorder the candidates            *)

MaxMmrDocs == 3     \* documents a collection ranks for the query

MmrScoreLists ==
    {scs \in UNION {[1..n -> Scores] : n \in 0..MaxMmrDocs} : IsAscending(scs)}

MmrCollectionStates(t) ==
    {[up |-> TRUE, docs |-> Ranked(t, scs)] : scs \in MmrScoreLists}
        \cup {[up |-> FALSE, docs |-> <<>>]}

MmrStores == [text : MmrCollectionStates("text"),
              image : MmrCollectionStates("image"),
              table : MmrCollectionStates("table")]

\* the selection parameters given, the text and table collections in or out
MmrSelections(k) ==
    [fetch_k : {k, k * FetchFactor}, lambda_mult : Lambdas,
     include_text : BOOLEAN, include_images : {TRUE}, include_tables : BOOLEAN]

InitMmr ==
    /\ store \in MmrStores
    /\ results = EmptyGroups
    /\ req = NoReq
    /\ out = NoOut
    /\ pc = "idle"

RetrieveMmrSelection ==
    /\ pc = "idle"
    /\ \E k \in 1..MaxMmrDocs : \E kwargs \in MmrSelections(k) :
           /\ req' = RetrieveRequest("mmr", k, kwargs)
           /\ out' = retrieve_multimodal(store, "mmr", k, kwargs)
           /\ pc' = "done"
           /\ UNCHANGED <<store, results>>

NextMmr == RetrieveMmrSelection

SpecMmr == InitMmr /\ [][NextMmr]_vars

IncludeKey(t) ==
    CASE t = "text" -> "include_text" [] t = "image" -> "include_images"
      [] t = "table" -> "include_tables"

\* C14: MMR retrieval with lambda_mult = 1 and fetch_k = k returns, for each
\* included collection, the items plain top-k similarity search returns on
\* that collection, in the same order.
C14_MmrDegeneratesToTopK ==
    (Retrieved /\ req.method = "mmr" /\ req.kwargs.lambda_mult = LambdaOne
               /\ req.kwargs.fetch_k = req.k) =>
        \A t \in Types :
            (req.kwargs[IncludeKey(t)] /\ store[t].up) =>
                out.results[GroupKey(t)] = similarity_search(store, t, req.k).docs

\* three candidates, the first two equally near: diversity would put the
\* third before the second, relevance alone keeps the collection's order
C14_Witness ==
    /\ Retrieved /\ req.method = "mmr" /\ req.kwargs.lambda_mult = LambdaOne
    /\ req.k = 3 /\ req.kwargs.fetch_k = 3 /\ req.kwargs.include_text
    /\ store.text.up /\ Len(store.text.docs) = 3
    /\ store.text.docs[1].score = store.text.docs[2].score
    /\ store.text.docs[2].score < store.text.docs[3].score
    /\ out.results.text = store.text.docs

----------------------------------------------------------------------------
(* Claims about the hybrid strategy, checked under Spec *)

Hybrid == Retrieved /\ req.method = "hybrid"

TypeRank(t) == CASE t = "text" -> 1 [] t = "image" -> 2 [] t = "table" -> 3

\* x arrived before y in all_results: by collection, then by the position the
\* collection returned it at
ArrivedBefore(x, y) ==
    \/ TypeRank(x.type) < TypeRank(y.type)
    \/ x.type = y.type /\ x.doc.id[2] < y.doc.id[2]

\* C15: in the hybrid sequence, items of equal weighted score stand in
\* arrival order: text before image before table, and within a collection in
\* the order the collection returned them.
C15_HybridTieBreak ==
    Hybrid =>
        \A i, j \in 1..Len(out.ranked_results) :
            (i < j /\ out.ranked_results[i].score = out.ranked_results[j].score) =>
                ArrivedBefore(out.ranked_results[i], out.ranked_results[j])

\* a text item and an image item tie on the weighted score although the
\* image is the nearer one by raw distance
C15_Witness ==
    /\ Hybrid /\ Len(out.ranked_results) = 2
    /\ out.ranked_results[1].type = "text" /\ out.ranked_results[2].type = "image"
    /\ out.ranked_results[1].score = out.ranked_results[2].score
    /\ out.ranked_results[2].doc.score < out.ranked_results[1].doc.score

\* the weight the request gives type t, or its default
WeightKey(t) == t \o "_weight"

DefaultWeight(t) ==
    CASE t = "text" -> DefaultTextWeight [] t = "image" -> DefaultImageWeight
      [] t = "table" -> DefaultTableWeight

WeightOf(t) == Get(req.kwargs, WeightKey(t), DefaultWeight(t))

\* the candidates of a hybrid request: the first k documents of each
\* collection that answers
Candidates ==
    UNION {{store[t].docs[i] : i \in 1..Min(req.k, Len(store[t].docs))} :
           t \in {u \in Types : store[u].up}}

RankedDocs == {out.ranked_results[i].doc : i \in 1..Len(out.ranked_results)}

\* C16: under hybrid each collection is queried with the same k, a
\* candidate's score is its raw distance times the weight of its type, and
\* the sequence returned holds min(k, number of candidates) candidates, none
\* of those left out having a strictly smaller weighted score than one
\* returned.
C16_HybridSelection ==
    Hybrid =>
        /\ out.searches = [n \in 1..3 |->
               SearchCall(TypeOrder[n], "similarity_search_with_score", req.k)]
        /\ \A i \in 1..Len(out.ranked_results) :
               LET x == out.ranked_results[i]
               IN  /\ x.doc \in Candidates
                   /\ x.doc.id[1] = x.type
                   /\ x.score = x.doc.score * WeightOf(x.type)
        /\ Cardinality(RankedDocs) = Len(out.ranked_results)
        /\ Len(out.ranked_results) = Min(req.k, Cardinality(Candidates))
        /\ \A c \in Candidates \ RankedDocs :
               \A i \in 1..Len(out.ranked_results) :
                   out.ranked_results[i].score <= c.score * WeightOf(c.id[1])

\* a candidate is left out, under weights given in the request, for the
\* weight of its type alone: an item as far from the query is returned
C16_Witness ==
    /\ Hybrid /\ "text_weight" \in DOMAIN req.kwargs
    /\ Len(out.ranked_results) = req.k
    /\ \E c \in Candidates \ RankedDocs :
           \E i \in 1..Len(out.ranked_results) :
               /\ c.score = out.ranked_results[i].doc.score
               /\ TypeRank(c.id[1]) < TypeRank(out.ranked_results[i].type)
               /\ out.ranked_results[i].score < c.score * WeightOf(c.id[1])

\* the request gives the three weights, all equal
EqualWeights ==
    /\ {"text_weight", "image_weight", "table_weight"} \subseteq DOMAIN req.kwargs
    /\ req.kwargs.text_weight = req.kwargs.image_weight
    /\ req.kwargs.image_weight = req.kwargs.table_weight

\* any two items of the merged sequence with different raw distances stand
\* in the order of their raw distances
RawOrder ==
    \A i, j \in 1..Len(out.ranked_results) :
        (i < j /\ out.ranked_results[i].doc.score # out.ranked_results[j].doc.score) =>
            out.ranked_results[i].doc.score < out.ranked_results[j].doc.score

\* different raw distances give different weighted scores
ProductsDiffer ==
    \A i, j \in 1..Len(out.ranked_results) :
        out.ranked_results[i].doc.score # out.ranked_results[j].doc.score =>
            out.ranked_results[i].score # out.ranked_results[j].score

\* C17 as stated: whenever the three weights are equal, at any value from 0
\* to 1, two items with different raw distances are merged in the order of
\* their raw distances.
C17_EqualWeightsRawOrder == (Hybrid /\ EqualWeights) => RawOrder

\* C17 as amended: whenever the three weights are equal and greater than 0,
\* two items with different raw distances are merged in the order of their
\* raw distances; with the three weights 0 every weighted score is 0 and the
\* items stand in arrival order.
C17_EqualPositiveWeightsRawOrder ==
    (Hybrid /\ EqualWeights) =>
        IF req.kwargs.text_weight > 0
        THEN RawOrder /\ ProductsDiffer
        ELSE \A i, j \in 1..Len(out.ranked_results) :
                 i < j => /\ out.ranked_results[i].score = 0
                          /\ ArrivedBefore(out.ranked_results[i], out.ranked_results[j])

\* under equal positive weights an image item overtakes a text item that is
\* farther from the query
C17_Witness ==
    /\ Hybrid /\ EqualWeights /\ req.kwargs.text_weight > 0
    /\ Len(out.ranked_results) = 2
    /\ out.ranked_results[1].type = "image" /\ out.ranked_results[2].type = "text"
    /\ out.ranked_results[1].doc.score < out.ranked_results[2].doc.score

\* the positions of the ranked sequence, up to i, tagged type t
TaggedUpTo(t, i) == {j \in 1..i : out.ranked_results[j].type = t}

\* C18: under hybrid every item of the ranked sequence is in exactly one
\* group, the one its type tag names; a group holds nothing else; and a
\* group lists its items in the order of the ranked sequence.  Hence the
\* group sizes sum to the length of the ranked sequence.
C18_HybridGrouping ==
    Hybrid =>
        /\ \A t \in Types :
               LET group == out.results[GroupKey(t)]
               IN  /\ Len(group) = Cardinality(TaggedUpTo(t, Len(out.ranked_results)))
                   /\ \A i \in 1..Len(out.ranked_results) :
                          out.ranked_results[i].type = t =>
                              group[Cardinality(TaggedUpTo(t, i))] = out.ranked_results[i].doc
                   /\ \A n \in 1..Len(group) : group[n].id[1] = t
        /\ \A i \in 1..Len(out.ranked_results) : out.ranked_results[i].type \in Types
        /\ GroupSizes(out.results) = Len(out.ranked_results)

\* the ranked sequence interleaves two types, an image item first
C18_Witness ==
    /\ Hybrid /\ Len(out.ranked_results) = 2
    /\ out.ranked_results[1].type = "image" /\ out.ranked_results[2].type = "text"
    /\ out.ranked_results[1].score < out.ranked_results[2].score
    /\ out.results.images = <<out.ranked_results[1].doc>>
    /\ out.results.text = <<out.ranked_results[2].doc>>
    /\ out.results.tables = <<>>

\* the fetch or the vision call of an image failed
Failed(outcome) == outcome \in {FetchFails, VisionRaises}

\* the images of the call the vision branch took and failed on
FailedImages(use_vision, config_use_vision) ==
    {i \in 1..Len(results.images) :
        /\ UsesVision(results.images[i], use_vision, config_use_vision)
        /\ Failed(req.outcomes[i])}

\* image i's block carries the stored description, labelled as stored
FellBack(context, i) ==
    /\ Cardinality(AnalysisOf(context, i)) = 1
    /\ \A n \in AnalysisOf(context, i) :
           /\ context[n].label = "Stored"
           /\ context[n].content = _escape_curly_braces(results.images[i].page_content)

\* the piece of the given kind and marker, anywhere after position from
PieceAfter(context, from, kind, marker) ==
    \E n \in (from + 1)..Len(context) :
        context[n].kind = kind /\ context[n].marker = marker

\* every image after image i, and every table, is in the context after
\* image i's analysis
ContinuesAfter(context, i) ==
    \A n \in AnalysisOf(context, i) :
        /\ \A j \in (i + 1)..Len(results.images) :
               /\ PieceAfter(context, n, "image", <<"IMAGE", j>>)
               /\ PieceAfter(context, n, "analysis", <<"IMAGE", j>>)
        /\ \A j \in 1..Len(results.tables) :
               PieceAfter(context, n, "table", <<"TABLE", j>>)

\* C19: with vision enabled, an image whose fetch or vision call fails gets
\* the stored description, labelled as stored, in its block; formatting goes
\* on to every later image and every table, and the language model is still
\* invoked.
C19_ImageFallback ==
    /\ Formatted =>
           \A i \in FailedImages(req.use_vision, req.config.use_vision) :
               FellBack(out.value, i) /\ ContinuesAfter(out.value, i)
    /\ (Generated /\ req.method \in GenerationMethods) =>
           \A i \in FailedImages(req.config.use_vision, req.config.use_vision) :
               /\ Cardinality(CallsOf(out.calls, {"llm"})) = 1
               /\ \A n \in CallsOf(out.calls, {"llm"}) :
                      /\ FellBack(out.calls[n].arg.context, i)
                      /\ ContinuesAfter(out.calls[n].arg.context, i)

\* the first image cannot be fetched; a second image and a table follow and
\* the language model is invoked on the whole context
C19_Witness ==
    /\ Generated /\ req.method = "simple" /\ req.config.use_vision
    /\ Len(results.images) = 2 /\ Len(results.tables) = 1
    /\ 1 \in FailedImages(TRUE, TRUE) /\ req.outcomes[1] = FetchFails
    /\ req.outcomes[2] = VisionAnswers
    /\ \E n \in CallsOf(out.calls, {"llm"}) : FellBack(out.calls[n].arg.context, 1)

\* the vision model raises on an image formatted directly
C19_WitnessVision ==
    /\ Formatted /\ \E i \in FailedImages(req.use_vision, req.config.use_vision) :
           req.outcomes[i] = VisionRaises /\ FellBack(out.value, i)

\* the calls of kind op made for image i
ImageCalls(calls, op, i) == {n \in 1..Len(calls) : calls[n].op = op /\ calls[n].image = i}

\* the calls made for the images: a fetch for image i exactly when vision is
\* enabled globally and for the call and the image has a URL, never more than
\* one; at most one vision call, made after the fetch and only if it succeeded
FetchDiscipline(calls, use_vision, config_use_vision) ==
    \A i \in 1..Len(results.images) :
        LET url == Get(results.images[i].metadata, "supabase_url", "")
            enabled == config_use_vision /\ use_vision /\ url # ""
            fetches == ImageCalls(calls, "fetch", i)
            visions == ImageCalls(calls, "vision", i)
        IN  /\ Cardinality(fetches) = IF enabled THEN 1 ELSE 0
            /\ \A n \in fetches : calls[n].arg = url
            /\ Cardinality(visions) <= 1
            /\ \A v \in visions :
                   /\ req.outcomes[i].fetched
                   /\ \E f \in fetches : f < v

\* C20: while the context is formatted, an image is fetched if and only if
\* vision is enabled globally and for the call and the image has a non-empty
\* URL; an image gets at most one fetch and at most one vision call, and the
\* vision call comes only after its fetch succeeded.
C20_FetchIffVisionEnabled ==
    /\ Formatted => FetchDiscipline(out.calls, req.use_vision, req.config.use_vision)
    /\ (Generated /\ req.method \in GenerationMethods) =>
           FetchDiscipline(out.calls, req.config.use_vision, req.config.use_vision)
    /\ (Formatted \/ Generated) =>
           \A n \in CallsOf(out.calls, {"fetch", "vision"}) :
               out.calls[n].image \in 1..Len(results.images)

\* vision is enabled: an image with a URL whose fetch fails is fetched once
\* and not analysed, an image without a URL is not fetched, and an image
\* fetched successfully is analysed once
C20_Witness ==
    /\ Formatted /\ req.use_vision /\ req.config.use_vision
    /\ Len(results.images) = 3
    /\ \E i, j, l \in 1..3 :
        /\ Get(results.images[i].metadata, "supabase_url", "") # ""
        /\ req.outcomes[i] = FetchFails
        /\ Cardinality(ImageCalls(out.calls, "fetch", i)) = 1
        /\ ImageCalls(out.calls, "vision", i) = {}
        /\ Get(results.images[j].metadata, "supabase_url", "") = ""
        /\ ImageCalls(out.calls, "fetch", j) = {}
        /\ req.outcomes[l] = VisionRaises
        /\ Cardinality(ImageCalls(out.calls, "vision", l)) = 1

----------------------------------------------------------------------------
(* Claims about the formatted context, checked under SpecGen *)

\* every brace of text is one of a pair of the same brace
RECURSIVE BracesDoubled(_)
BracesDoubled(text) ==
    IF text = <<>> THEN TRUE
    ELSE IF Head(text) \in {"{", "}"}
    THEN /\ Len(text) >= 2
         /\ text[2] = Head(text)
         /\ BracesDoubled(SubSeq(text, 3, Len(text)))
    ELSE BracesDoubled(Tail(text))

\* the content the program had in hand for a piece of the context
ContentSource(part, outcomes) ==
    CASE part.kind = "text" -> results.text[part.marker[2]].page_content
      [] part.kind = "table" -> results.tables[part.marker[2]].page_content
      [] part.kind = "analysis" /\ part.label = "Real-time" ->
             outcomes[part.marker[2]].analysis
      [] part.kind = "analysis" -> results.images[part.marker[2]].page_content
      [] OTHER -> <<>>

\* every content of the context is its source with the braces doubled
ContextEscaped(context, outcomes) ==
    \A n \in 1..Len(context) :
        /\ context[n].content = _escape_curly_braces(ContentSource(context[n], outcomes))
        /\ BracesDoubled(context[n].content)

\* C21: every content inserted into the formatted context (text, table,
\* stored image description, real-time vision analysis) and the user query
\* have each '{' and '}' doubled; no single brace from content is in the
\* context.
C21_ContentEscaped ==
    /\ Formatted => ContextEscaped(out.value, req.outcomes)
    /\ (Generated /\ req.method \in GenerationMethods) =>
           \A n \in CallsOf(out.calls, {"llm"}) :
               /\ ContextEscaped(out.calls[n].arg.context, req.outcomes)
               /\ out.calls[n].arg.query = _escape_curly_braces(req.query)
               /\ BracesDoubled(out.calls[n].arg.query)

\* the positions of the context holding the block head tagged [tag-n]
BlockAt(context, kind, tag, n) ==
    {p \in 1..Len(context) : context[p].kind = kind /\ context[p].marker = <<tag, n>>}

\* the block heads of one kind are tagged 1, 2, ... in the order of the group
TaggedInOrder(context, kind, tag, docs) ==
    /\ \A n \in 1..Len(docs) : Cardinality(BlockAt(context, kind, tag, n)) = 1
    /\ \A p \in 1..Len(context) :
           context[p].kind = kind =>
               /\ context[p].marker[1] = tag
               /\ context[p].marker[2] \in 1..Len(docs)
    /\ \A p, q \in 1..Len(context) :
           (context[p].kind = kind /\ context[q].kind = kind /\ p < q) =>
               context[p].marker[2] < context[q].marker[2]

KindRank(kind) ==
    CASE kind = "text" -> 1
      [] kind \in {"image", "analysis", "url"} -> 2
      [] kind = "table" -> 3
      [] OTHER -> 0

\* the context tags the n-th item of each group and lists text, then image,
\* then table blocks
MarkersInContext(context) ==
    /\ TaggedInOrder(context, "text", "TEXT", results.text)
    /\ TaggedInOrder(context, "image", "IMAGE", results.images)
    /\ TaggedInOrder(context, "table", "TABLE", results.tables)
    /\ \A n \in 1..Len(results.text) : \A p \in BlockAt(context, "text", "TEXT", n) :
           context[p].content = _escape_curly_braces(results.text[n].page_content)
    /\ \A n \in 1..Len(results.tables) : \A p \in BlockAt(context, "table", "TABLE", n) :
           context[p].content = _escape_curly_braces(results.tables[n].page_content)
    /\ \A n \in 1..Len(results.images) : \A p \in BlockAt(context, "image", "IMAGE", n) :
           /\ p < Len(context)
           /\ context[p + 1].kind = "analysis"
           /\ context[p + 1].marker = <<"IMAGE", n>>
    /\ \A p, q \in 1..Len(context) :
           (KindRank(context[p].kind) > 0 /\ KindRank(context[q].kind) > 0 /\ p < q) =>
               KindRank(context[p].kind) <= KindRank(context[q].kind)

GroupOfTag(tag) ==
    CASE tag = "TEXT" -> results.text [] tag = "IMAGE" -> results.images
      [] tag = "TABLE" -> results.tables

TagOfType(type) ==
    CASE type = "text" -> "TEXT" [] type = "image" -> "IMAGE" [] type = "table" -> "TABLE"

\* the source entries carry one id per item, the id of the item they describe
MarkersInSources(sources) ==
    /\ \A tag \in {"TEXT", "IMAGE", "TABLE"} : \A n \in 1..Len(GroupOfTag(tag)) :
           Cardinality({e \in 1..Len(sources) : sources[e].id = <<tag, n>>}) = 1
    /\ \A e \in 1..Len(sources) :
           LET tag == sources[e].id[1]
               n == sources[e].id[2]
           IN  /\ tag = TagOfType(sources[e].type)
               /\ n \in 1..Len(GroupOfTag(tag))
               /\ sources[e].metadata = GroupOfTag(tag)[n].metadata
               /\ IF tag = "IMAGE"
                  THEN sources[e].description = GroupOfTag(tag)[n].page_content
                  ELSE Prefix(sources[e].content_preview, 1)
                           = Prefix(GroupOfTag(tag)[n].page_content, 1)

\* C22: the n-th item of a group is tagged [TEXT-n], [IMAGE-n] or [TABLE-n]
\* in the context, the source entry of that item has the same id, and the
\* context lists the text blocks, then the image blocks, then the table
\* blocks.
C22_CitationMarkers ==
    /\ Formatted => MarkersInContext(out.value)
    /\ (Generated /\ req.method \in GenerationMethods) =>
           /\ \A n \in CallsOf(out.calls, {"llm"}) :
                  MarkersInContext(out.calls[n].arg.context)
           /\ ("sources" \in DOMAIN out.value /\ out.value.has_context) =>
                  MarkersInSources(out.value.sources)

\* two texts and a table: [TEXT-1], [TEXT-2], [TABLE-1] in the context and
\* the three ids in the sources
C22_Witness ==
    /\ Generated /\ req.method = "citations" /\ ~req.llm.raises
    /\ Len(results.text) = 2 /\ Len(results.tables) = 1
    /\ results.text[1] # results.text[2]
    /\ \E n \in CallsOf(out.calls, {"llm"}) :
           \E p \in BlockAt(out.calls[n].arg.context, "text", "TEXT", 2) :
               \E q \in BlockAt(out.calls[n].arg.context, "table", "TABLE", 1) : p < q
    /\ Len(out.value.sources) = 3
    /\ out.value.sources[2].id = <<"TEXT", 2>>
    /\ out.value.sources[3].id = <<"TABLE", 1>>

\* C23: for each valid mode generate_answer returns has_context = false if
\* and only if the three groups are empty; if a group is non-empty the
\* language model is invoked exactly once and has_context is true, whether
\* or not an image fetch, a vision call or the language-model call fails.
C23_HasContextIffContent ==
    (Generated /\ req.method \in GenerationMethods) =>
        /\ ~out.raised
        /\ out.value.has_context \in BOOLEAN
        /\ out.value.has_context = FALSE <=> AllEmpty(results)
        /\ ~AllEmpty(results) => Cardinality(CallsOf(out.calls, {"llm"})) = 1
        /\ AllEmpty(results) => CallsOf(out.calls, {"llm"}) = {}

\* the only content is an image that cannot be fetched, and the language
\* model fails too
C23_Witness ==
    /\ Generated /\ req.method = "structured" /\ req.config.use_vision
    /\ results.text = <<>> /\ results.tables = <<>> /\ Len(results.images) = 1
    /\ 1 \in FailedImages(TRUE, TRUE)
    /\ req.llm.raises
    /\ out.value.has_context = TRUE

\* C24: a generate_answer result holds a sources list if and only if it was
\* requested: with include_sources false no mode returns one, and with
\* include_sources true every successful result holds one source entry per
\* item of the three groups.
C24_SourcesIffRequested ==
    (Generated /\ req.method \in GenerationMethods) =>
        /\ ~req.include_sources => "sources" \notin DOMAIN out.value
        /\ (req.include_sources /\ ~AllEmpty(results) /\ ~req.llm.raises) =>
               /\ "sources" \in DOMAIN out.value
               /\ Len(out.value.sources) = GroupSizes(results)

----------------------------------------------------------------------------
(* Claims about the collections a strategy leaves out, checked under Spec *)

\* the types the request's strategy leaves out
Excluded ==
    CASE req.method = "mmr" ->
            {t \in Types : ~Get(req.kwargs, IncludeKey(t), TRUE)}
      [] req.method \in SingleMethods ->
            {t \in Types : req.method # t \o "_only"}
      [] OTHER -> {}

SearchesOf(t) == {n \in 1..Len(out.searches) : out.searches[n].coll = t}

\* C25: a collection the strategy leaves out is never queried and its group
\* is empty: under mmr a type whose include flag is false, under text_only,
\* image_only and table_only the two other types.
C25_ExcludedNeverQueried ==
    Retrieved =>
        \A t \in Excluded :
            /\ SearchesOf(t) = {}
            /\ out.results[GroupKey(t)] = <<>>

\* mmr leaves the images out although their collection answers and holds
\* documents; the text group is filled
C25_Witness ==
    /\ Retrieved /\ req.method = "mmr" /\ Excluded = {"image"}
    /\ store.image.up /\ Len(store.image.docs) > 0
    /\ Len(out.results.text) > 0 /\ Len(out.results.tables) > 0
    /\ out.results.images = <<>>

\* table_only leaves text and images out
C25_WitnessSingle ==
    /\ Retrieved /\ req.method = "table_only" /\ ~out.raised
    /\ Len(store.text.docs) > 0 /\ Len(store.image.docs) > 0
    /\ Len(out.results.tables) > 0
    /\ Len(out.searches) = 1

----------------------------------------------------------------------------
(* Specification SpecK: the all strategy over a range of k wide enough for  *)
(* floor(k / 2) to pass 2, called directly and through the query endpoint   *)

MaxDefaultK == 6    \* largest k asked for

\* what a client sends to the endpoint: the strategy and k, and a per-type k
\* for the images or none at all
QueryAllGiven(k) ==
    {[query |-> <<"q">>, retrieval_method |-> "all", k |-> k],
     [query |-> <<"q">>, retrieval_method |-> "all", k |-> k, k_images |-> 1]}

InitK ==
    /\ results \in GenResults(MaxItems)
    /\ store = StoreHolding(results)
    /\ req = NoReq
    /\ out = NoOut
    /\ pc = "idle"

RetrieveAllByK ==
    /\ pc = "idle"
    /\ \E k \in 1..MaxDefaultK : \E kwargs \in AllKwargs :
           /\ req' = RetrieveRequest("all", k, kwargs)
           /\ out' = retrieve_multimodal(store, "all", k, kwargs)
           /\ pc' = "done"
           /\ UNCHANGED <<store, results>>

QueryAllByK ==
    /\ pc = "idle"
    /\ \E k \in 1..MaxDefaultK : \E given \in QueryAllGiven(k) :
           LET settings == [USE_VISION |-> FALSE, LLM_MODEL |-> "gpt-4o-mini",
                            VISION_MODEL |-> "gpt-4o"]
               outcomes == [i \in 1..Len(store.image.docs) |-> VisionAnswers]
           IN  /\ req' = [op |-> "query_documents", given |-> given,
                          request |-> QueryRequest(given), settings |-> settings,
                          down |-> {}, outcomes |-> outcomes]
               /\ out' = query_documents(QueryRequest(given), settings, store, outcomes,
                                         LlmAnswers)
               /\ pc' = "done"
               /\ UNCHANGED <<store, results>>

NextK ==
    \/ RetrieveAllByK
    \/ QueryAllByK

SpecK == InitK /\ [][NextK]_vars

\* the k each collection was queried with, in the order of the queries
QueriedWith(calls) ==
    LET IsSearch(c) == c.op = "similarity_search"
        searches == SelectSeq(calls, IsSearch)
    IN  [n \in 1..Len(searches) |-> <<searches[n].coll, searches[n].k>>]

HalfOrTwo(k) == IF k \div 2 >= 2 THEN k \div 2 ELSE 2

\* no per-type k came with the call
OnlyK(given) == DOMAIN given \cap {"k_text", "k_images", "k_tables"} = {}

DirectDefaults ==
    (Retrieved /\ req.method = "all" /\ OnlyK(req.kwargs)) =>
        QueriedWith(out.searches) =
            <<<<"text", req.k>>, <<"image", HalfOrTwo(req.k)>>,
              <<"table", HalfOrTwo(req.k)>>>>

\* C26 as stated: under the all strategy with only k given, text is queried
\* with k and images and tables each with max(2, floor(k / 2)), for a direct
\* retrieve_multimodal call and for an endpoint request that omits k_text,
\* k_images and k_tables.
C26_DefaultPerTypeK ==
    /\ DirectDefaults
    /\ (Queried /\ req.request.retrieval_method = "all" /\ OnlyK(req.given)) =>
           QueriedWith(out.calls) =
               <<<<"text", req.given.k>>, <<"image", HalfOrTwo(req.given.k)>>,
                 <<"table", HalfOrTwo(req.given.k)>>>>

\* C26 as amended: a direct retrieve_multimodal call with only k queries text
\* with k and images and tables each with max(2, floor(k / 2)); an endpoint
\* request that omits the three per-type k queries every collection with k.
C26_DefaultPerTypeKDirect ==
    /\ DirectDefaults
    /\ (Queried /\ req.request.retrieval_method = "all" /\ OnlyK(req.given)) =>
           QueriedWith(out.calls) =
               <<<<"text", req.given.k>>, <<"image", req.given.k>>,
                 <<"table", req.given.k>>>>

\* a direct call with k = 6 and nothing else: images and tables are asked
\* for floor(6 / 2) = 3
C26_Witness ==
    /\ Retrieved /\ req.method = "all" /\ req.k = 6 /\ OnlyK(req.kwargs)
    /\ QueriedWith(out.searches) = <<<<"text", 6>>, <<"image", 3>>, <<"table", 3>>>>

\* an endpoint request with k = 5 and no per-type k
C26_WitnessEndpoint ==
    /\ Queried /\ req.given.k = 5 /\ OnlyK(req.given)
    /\ QueriedWith(out.calls) = <<<<"text", 5>>, <<"image", 5>>, <<"table", 5>>>>

----------------------------------------------------------------------------
(* Claims about the order of the external calls, checked under SpecGen.     *)
(* Every call blocks until it returns, so the order of the call log is the  *)
(* order in which the calls ran.                                            *)

SearchOps ==
    {"similarity_search", "similarity_search_with_score", "max_marginal_relevance_search"}

\* collection queries, then image processing, then generation
Phase(call) ==
    CASE call.op \in SearchOps -> 1
      [] call.op \in {"fetch", "vision"} -> 2
      [] call.op = "llm" -> 3

\* call c ran before call d in a run that keeps the order of the claim
InOrder(c, d) ==
    /\ Phase(c) <= Phase(d)
    /\ (Phase(c) = 1 /\ Phase(d) = 1) => TypeRank(c.coll) < TypeRank(d.coll)
    /\ (Phase(c) = 2 /\ Phase(d) = 2) =>
           \/ c.image < d.image
           \/ c.image = d.image /\ c.op = "fetch" /\ d.op = "vision"
    /\ ~(Phase(c) = 3 /\ Phase(d) = 3)

Sequential(calls) == \A p, q \in 1..Len(calls) : p < q => InOrder(calls[p], calls[q])

\* C27: within one request the collections are queried text, then image,
\* then table; the fetch and the vision call of image i are over before any
\* call for image i + 1; and the language model is invoked only after the
\* processing of every image.
C27_SequentialCalls ==
    /\ (Queried \/ Generated \/ Formatted) => Sequential(out.calls)
    /\ (Queried /\ ~out.raised /\ req.request.retrieval_method \in {"all", "hybrid", "mmr"}) =>
           /\ Len(out.calls) >= 3
           /\ \A n \in 1..3 : Phase(out.calls[n]) = 1 /\ out.calls[n].coll = TypeOrder[n]

\* an endpoint request whose two images are both analysed: three queries,
\* fetch and vision of image 1, fetch and vision of image 2, then the
\* language model
C27_Witness ==
    /\ Queried /\ ~out.raised /\ Len(out.calls) = 8
    /\ \A n \in 1..3 : Phase(out.calls[n]) = 1
    /\ out.calls[4].op = "fetch" /\ out.calls[4].image = 1
    /\ out.calls[5].op = "vision" /\ out.calls[5].image = 1
    /\ out.calls[6].op = "fetch" /\ out.calls[6].image = 2
    /\ out.calls[7].op = "vision" /\ out.calls[7].image = 2
    /\ out.calls[8].op = "llm"

-----------------------------------------------------------------------------
(* MultimodalChromaStore.store_tables, and the formatting of what it stored *)

MaxTables == 2      \* tables of one extraction result

Whitespace == {" "}

\* not text.strip()
IsBlankText(text) == \A n \in 1..Len(text) : text[n] \in Whitespace

\* a or b, for two texts
OrText(a, b) == IF a # <<>> THEN a ELSE b

\* table.get("table_html"): None and the missing key read alike, as no text
TableHtmlOf(table) == Get(table, "table_html", <<>>)

\* content = table.get("table_html") or table.get("table_text", "")
TableContent(table) == OrText(TableHtmlOf(table), Get(table, "table_text", <<>>))

\* the flag taken from the presence of the key
TableHasHtmlByKey(table) == "table_html" \in DOMAIN table

\* has_html = bool(table.get("table_html"))
TableHasHtml(table) == TableHtmlOf(table) # <<>>

\* the table's own metadata, each key stored as table_<key>
TablePrefixed(meta) ==
    [p \in {"table_" \o key : key \in DOMAIN meta} |->
        meta[CHOOSE key \in DOMAIN meta : "table_" \o key = p]]

\* the document built for one table: its metadata, updated by the source
\* metadata and then by the table's own keys
TableDocument(table, source_metadata) ==
    [page_content |-> TableContent(table),
     metadata |-> TablePrefixed(Get(table, "metadata", <<>>))
                  @@ source_metadata
                  @@ [type |-> "table", table_id |-> Get(table, "id", ""),
                      has_html |-> TableHasHtml(table)]]

\* store_tables: the documents added to the table collection, blank content skipped
RECURSIVE store_tables(_, _)
store_tables(tables, source_metadata) ==
    IF tables = <<>> THEN <<>>
    ELSE (IF IsBlankText(TableContent(Head(tables))) THEN <<>>
          ELSE <<TableDocument(Head(tables), source_metadata)>>)
         \o store_tables(Tail(tables), source_metadata)

\* the tables an extraction yields: the HTML is None, empty, blank or markup;
\* the text is empty, blank or words; the element's page is known or not
TableHtmls == {<<>>, <<" ">>, <<"<", "{", ">">>}
TableTexts == {<<>>, <<" ">>, <<"t", "{">>}
TableMetadatas == {[page_number |-> 1], [category |-> "Table"]}

ExtractedTables ==
    {[id |-> "t", table_text |-> text, metadata |-> meta] :
        text \in TableTexts, meta \in TableMetadatas}
    \cup {[id |-> "t", table_html |-> html, table_text |-> text, metadata |-> meta] :
            html \in TableHtmls, text \in TableTexts, meta \in TableMetadatas}

\* source_metadata as store_to_chroma builds it
SourceMetadata ==
    [source_file |-> "a.pdf", total_elements |-> 1, image_bucket |-> "images",
     document_bucket |-> "docs"]

InitTables ==
    /\ store = StoreHolding(EmptyGroups)
    /\ results = EmptyGroups
    /\ req = NoReq
    /\ out = NoOut
    /\ pc = "idle"

StoreTables ==
    /\ pc = "idle"
    /\ \E n \in 0..MaxTables : \E tables \in [1..n -> ExtractedTables] :
           /\ req' = [op |-> "store_tables", tables |-> tables]
           /\ store' = [store EXCEPT
                          !.table = Stored("table", @.docs \o store_tables(tables, SourceMetadata))]
           /\ out' = [raised |-> FALSE, value |-> Len(store_tables(tables, SourceMetadata)),
                      calls |-> <<>>]
           /\ pc' = "stored"
           /\ UNCHANGED results

\* the stored tables, retrieved whole and formatted into a context
FormatStoredTables ==
    /\ pc = "stored"
    /\ \E language \in Languages :
           LET groups == [EmptyGroups EXCEPT !.tables = store.table.docs]
               f == _format_multimodal_context(groups, FALSE, FALSE, language, <<>>)
           IN  /\ results' = groups
               /\ out' = [raised |-> FALSE, value |-> f.context, calls |-> f.calls]
               /\ pc' = "done"
               /\ UNCHANGED <<store, req>>

NextTables ==
    \/ StoreTables
    \/ FormatStoredTables

SpecTables == InitTables /\ [][NextTables]_vars

\* the table carries an HTML representation that is present and non-empty
HtmlPresent(table) == "table_html" \in DOMAIN table /\ table.table_html # <<>>

\* the representation the claim has emitted for the table
Representation(table) == IF HtmlPresent(table) THEN table.table_html ELSE table.table_text

\* the ingested tables whose chosen content is not blank, in order of ingestion
KeptTables(tables) ==
    LET Kept(table) == ~IsBlankText(Representation(table))
    IN  SelectSeq(tables, Kept)

\* text with every pair of equal braces read as the one brace it renders as
RECURSIVE BracesHalved(_)
BracesHalved(text) ==
    IF text = <<>> THEN <<>>
    ELSE IF Head(text) \in {"{", "}"} /\ Len(text) >= 2 /\ text[2] = Head(text)
    THEN <<Head(text)>> \o BracesHalved(SubSeq(text, 3, Len(text)))
    ELSE <<Head(text)>> \o BracesHalved(Tail(text))

\* the table blocks of a context, in order
TableBlocks(context) ==
    LET IsTable(part) == part.kind = "table"
    IN  SelectSeq(context, IsTable)

\* C28: every table ingested by store_tables and later formatted is emitted
\* with its HTML representation when one is present and non-empty and with its
\* plain text otherwise, its format flag reads HTML exactly when the emitted
\* content is the HTML representation, and a table whose chosen content is
\* blank is not stored.
C28_TableFormatFlag ==
    /\ (pc \in {"stored", "done"} /\ req.op = "store_tables") =>
           /\ Len(store.table.docs) = Len(KeptTables(req.tables))
           /\ \A n \in 1..Len(store.table.docs) :
                  ~IsBlankText(store.table.docs[n].page_content)
    /\ (pc = "done" /\ req.op = "store_tables") =>
           LET kept == KeptTables(req.tables)
               blocks == TableBlocks(out.value)
           IN  /\ Len(blocks) = Len(kept)
               /\ \A n \in 1..Len(blocks) :
                      /\ BracesDoubled(blocks[n].content)
                      /\ BracesHalved(blocks[n].content) = Representation(kept[n])
                      /\ blocks[n].label = "HTML" <=> HtmlPresent(kept[n])
                      /\ blocks[n].label \in {"HTML", "Plain Text"}

\* a table with markup beside one whose HTML is the empty string: the context
\* shows the first as HTML and the second as plain text
C28_Witness ==
    /\ pc = "done" /\ req.op = "store_tables"
    /\ Len(req.tables) = 2
    /\ HtmlPresent(req.tables[1])
    /\ "table_html" \in DOMAIN req.tables[2] /\ req.tables[2].table_html = <<>>
    /\ LET blocks == TableBlocks(out.value)
       IN  /\ Len(blocks) = 2
           /\ blocks[1].label = "HTML" /\ blocks[2].label = "Plain Text"

\* a table whose HTML is blank and whose text is not: never stored
C28_WitnessBlank ==
    /\ pc = "done" /\ req.op = "store_tables"
    /\ Len(req.tables) = 1
    /\ HtmlPresent(req.tables[1]) /\ IsBlankText(req.tables[1].table_html)
    /\ ~IsBlankText(req.tables[1].table_text)
    /\ store.table.docs = <<>>
    /\ out.value = <<>>

-----------------------------------------------------------------------------
(* POST /api/v1/upload: the life of the temporary copy of the uploaded PDF. *)
(* store.tmp is the set of temporary files on disk; req holds the handler's *)
(* arguments and locals, among them background_tasks and temp_pdf.          *)

MaxChunks == 1      \* text chunks, images and tables of one extraction result

TempName == "upload_tmp.pdf"

\* the step of the handler that raises in this request, if any
UploadFaults == {"none", "create", "copy", "extract", "store", "response"}

UploadConfigs ==
    [extract_images : BOOLEAN, extract_tables : BOOLEAN, store_to_vectordb : BOOLEAN]

ChunkDocument(t) == [page_content |-> <<"a">>, metadata |-> [type |-> t]]

\* what extract_pdf_multimodal_with_supabase returns from the temporary copy
ExtractionResults ==
    UNION {[text_chunks : [1..a -> {ChunkDocument("text")}],
            images : [1..b -> {ChunkDocument("image")}],
            tables : [1..c -> {[id |-> "t", table_html |-> <<"<", ">">>, table_text |-> <<"t">>],
                               [id |-> "t", table_text |-> <<" ">>]}]] :
           a \in 0..MaxChunks, b \in 0..MaxChunks, c \in 0..MaxChunks}

\* store_to_chroma: text always, images and tables as the configuration asks
store_to_chroma(st, extraction_result, store_images, store_tables_flag) ==
    [st EXCEPT
       !.text = Stored("text", @.docs \o extraction_result.text_chunks),
       !.image = IF store_images
                 THEN Stored("image", @.docs \o extraction_result.images) ELSE @,
       !.table = IF store_tables_flag
                 THEN Stored("table", @.docs \o store_tables(extraction_result.tables,
                                                              SourceMetadata))
                 ELSE @]

\* cleanup_temp_file, and the handlers' os.remove under os.path.exists
cleanup_temp_file(files, file_path) == files \ {file_path}

\* the two except clauses of upload_document: the copy is removed when
\* temp_pdf names it, and the request fails with status 500
UploadFailed(st, temp_pdf) ==
    [store |-> IF temp_pdf # None
               THEN [st EXCEPT !.tmp = cleanup_temp_file(st.tmp, temp_pdf)]
               ELSE st,
     out |-> [raised |-> TRUE, status |-> 500]]

InitUpload ==
    /\ store = [text |-> Stored("text", <<>>), image |-> Stored("image", <<>>),
                table |-> Stored("table", <<>>), tmp |-> {}]
    /\ results = EmptyGroups
    /\ req = NoReq
    /\ out = NoOut
    /\ pc = "idle"

\* the configuration does not parse, or validate_file refuses the file
UploadRejected ==
    /\ pc = "idle"
    /\ \E config_ok \in BOOLEAN, file_ok \in BOOLEAN :
           /\ ~(config_ok /\ file_ok)
           /\ req' = [op |-> "upload_document", config_ok |-> config_ok, file_ok |-> file_ok]
           /\ out' = [raised |-> TRUE, status |-> 400]
           /\ pc' = "done"
           /\ UNCHANGED <<store, results>>

UploadAccepted ==
    /\ pc = "idle"
    /\ \E config \in UploadConfigs, fault \in UploadFaults, extraction \in ExtractionResults :
           /\ req' = [op |-> "upload_document", config_ok |-> TRUE, file_ok |-> TRUE,
                      config |-> config, fault |-> fault, extraction |-> extraction,
                      temp_pdf |-> None, created |-> FALSE, background_tasks |-> <<>>]
           /\ out' = NoOut
           /\ pc' = "open"
           /\ UNCHANGED <<store, results>>

\* tempfile.NamedTemporaryFile(delete=False, ...): the file is on disk from here
CreateTempFile ==
    /\ pc = "open"
    /\ IF req.fault = "create"
       THEN /\ store' = UploadFailed(store, req.temp_pdf).store
            /\ out' = UploadFailed(store, req.temp_pdf).out
            /\ pc' = "done"
            /\ UNCHANGED <<results, req>>
       ELSE /\ store' = [store EXCEPT !.tmp = @ \cup {TempName}]
            /\ req' = [req EXCEPT !.created = TRUE]
            /\ pc' = "copy"
            /\ UNCHANGED <<results, out>>

\* shutil.copyfileobj(file.file, tmp), and only then temp_pdf = tmp.name
CopyUpload ==
    /\ pc = "copy"
    /\ IF req.fault = "copy"
       THEN /\ store' = UploadFailed(store, req.temp_pdf).store
            /\ out' = UploadFailed(store, req.temp_pdf).out
            /\ pc' = "done"
            /\ UNCHANGED <<results, req>>
       ELSE /\ req' = [req EXCEPT !.temp_pdf = TempName]
            /\ pc' = "extract"
            /\ UNCHANGED <<store, results, out>>

ExtractPdf ==
    /\ pc = "extract"
    /\ IF req.fault = "extract"
       THEN /\ store' = UploadFailed(store, req.temp_pdf).store
            /\ out' = UploadFailed(store, req.temp_pdf).out
            /\ pc' = "done"
            /\ UNCHANGED <<results, req>>
       ELSE /\ results' = [text |-> req.extraction.text_chunks,
                           images |-> req.extraction.images,
                           tables |-> req.extraction.tables]
            /\ pc' = "store"
            /\ UNCHANGED <<store, req, out>>

StoreToVectorDb ==
    /\ pc = "store"
    /\ IF ~req.config.store_to_vectordb
       THEN /\ pc' = "respond"
            /\ UNCHANGED <<store, results, req, out>>
       ELSE IF req.fault = "store"
       THEN /\ store' = UploadFailed(store, req.temp_pdf).store
            /\ out' = UploadFailed(store, req.temp_pdf).out
            /\ pc' = "done"
            /\ UNCHANGED <<results, req>>
       ELSE /\ store' = store_to_chroma(store, req.extraction, req.config.extract_images,
                                        req.config.extract_tables)
            /\ pc' = "respond"
            /\ UNCHANGED <<results, req, out>>

\* background_tasks.add_task(cleanup_temp_file, temp_pdf), then the response
UploadRespond ==
    /\ pc = "respond"
    /\ req' = [req EXCEPT !.background_tasks = Append(@, req.temp_pdf)]
    /\ IF req.fault = "response"
       THEN /\ store' = UploadFailed(store, req.temp_pdf).store
            /\ out' = UploadFailed(store, req.temp_pdf).out
            /\ pc' = "done"
            /\ UNCHANGED results
       ELSE /\ out' = [raised |-> FALSE, status |-> 201]
            /\ pc' = "responded"
            /\ UNCHANGED <<store, results>>

\* after the response is sent, the background tasks of the request run
RunBackgroundTasks ==
    /\ pc = "responded"
    /\ store' = [store EXCEPT !.tmp = @ \ {req.background_tasks[n] :
                                             n \in 1..Len(req.background_tasks)}]
    /\ pc' = "done"
    /\ UNCHANGED <<results, req, out>>

NextUpload ==
    \/ UploadRejected
    \/ UploadAccepted
    \/ CreateTempFile
    \/ CopyUpload
    \/ ExtractPdf
    \/ StoreToVectorDb
    \/ UploadRespond
    \/ RunBackgroundTasks

SpecUpload == InitUpload /\ [][NextUpload]_vars

\* the request is over: its response, or its error, has been produced
UploadEnded == req.op = "upload_document" /\ pc \in {"responded", "done"}

\* the request made the temporary copy
CreatedCopy == "created" \in DOMAIN req /\ req.created

\* the removal of the copy is among the request's background tasks
RemovalScheduled ==
    /\ ~out.raised
    /\ \E n \in 1..Len(req.background_tasks) : req.background_tasks[n] = TempName

\* C29: once a request of the upload endpoint that created the temporary copy
\* of the PDF has ended, the copy is removed or its removal is scheduled as a
\* background task, whether the request succeeded or failed while copying,
\* extracting or storing.
C29_TempFileCleanedUp ==
    (UploadEnded /\ CreatedCopy) => (TempName \notin store.tmp \/ RemovalScheduled)

-----------------------------------------------------------------------------
(* DELETE /api/v1/collections.  Here store is the Chroma client's view: the *)
(* collections that exist, by name.                                         *)

MaxStored == 1      \* documents of a collection when the request arrives

valid_collections == <<"documents_text", "documents_images", "documents_tables">>

\* the names a request may carry: the three valid ones, a collection that
\* exists under another name, and a name no collection has
CollectionNames ==
    {valid_collections[n] : n \in 1..Len(valid_collections)}
    \cup {"documents_archive", "documents"}

\* DeleteCollectionRequest: confirm defaults to false
DeleteCollectionRequest(given) ==
    [collection_name |-> given.collection_name, confirm |-> Get(given, "confirm", FALSE)]

DeleteCollectionRequests ==
    {DeleteCollectionRequest(g) :
        g \in [collection_name : CollectionNames]
              \cup [collection_name : CollectionNames, confirm : BOOLEAN]}

\* the collections the client holds, each with its documents
ChromaStates ==
    UNION {[names -> UNION {[1..n -> {[page_content |-> <<"a">>]}] : n \in 0..MaxStored}] :
           names \in SUBSET (CollectionNames \ {"documents"})}

\* not request.confirm
Unconfirmed(request) == ~request.confirm

\* request.collection_name not in valid_collections, the check left out
InvalidCollectionNever(request) == FALSE

\* request.collection_name not in valid_collections
InvalidCollection(request) ==
    \A n \in 1..Len(valid_collections) : request.collection_name # valid_collections[n]

\* client.delete_collection(name=...)
ChromaDelete(st, name) == [n \in DOMAIN st \ {name} |-> st[n]]

\* delete_collection: the response and the collections left; the client
\* raises when told to, or when no collection has the name
delete_collection(request, st, client_raises) ==
    IF Unconfirmed(request) THEN [status |-> 400, raised |-> TRUE, store |-> st]
    ELSE IF InvalidCollection(request) THEN [status |-> 400, raised |-> TRUE, store |-> st]
    ELSE IF client_raises \/ request.collection_name \notin DOMAIN st
    THEN [status |-> 500, raised |-> TRUE, store |-> st]
    ELSE [status |-> 200, raised |-> FALSE,
          documents_deleted |-> Len(st[request.collection_name]),
          store |-> ChromaDelete(st, request.collection_name)]

InitDelete ==
    /\ store \in ChromaStates
    /\ results = EmptyGroups
    /\ req = NoReq
    /\ out = NoOut
    /\ pc = "idle"

DeleteCollection ==
    /\ pc = "idle"
    /\ \E request \in DeleteCollectionRequests, client_raises \in BOOLEAN :
           LET r == delete_collection(request, store, client_raises)
           IN  /\ req' = [op |-> "delete_collection", request |-> request,
                          client_raises |-> client_raises, before |-> store]
               /\ out' = [raised |-> r.raised, status |-> r.status]
               /\ store' = r.store
               /\ pc' = "done"
               /\ UNCHANGED results

NextDelete == DeleteCollection

SpecDelete == InitDelete /\ [][NextDelete]_vars

Deleted == pc = "done" /\ req.op = "delete_collection"

\* the request may delete: it confirms and names one of the three collections
MayDelete(request) ==
    /\ request.confirm
    /\ request.collection_name \in {"documents_text", "documents_images", "documents_tables"}

\* C30: the delete-collection endpoint removes a collection only for a request
\* with confirm = true whose collection name is documents_text,
\* documents_images or documents_tables, and then no other collection than
\* the named one; any other request is answered 400 and every collection is
\* as it was.
C30_DeleteGuard ==
    Deleted =>
        /\ store # req.before => MayDelete(req.request)
        /\ \A name \in DOMAIN req.before :
               name # req.request.collection_name =>
                   name \in DOMAIN store /\ store[name] = req.before[name]
        /\ ~MayDelete(req.request) => out.raised /\ out.status = 400 /\ store = req.before

\* a confirmed request for documents_images removes that collection and its
\* document, and leaves documents_archive in place
C30_Witness ==
    /\ Deleted /\ ~out.raised /\ out.status = 200
    /\ req.request = [collection_name |-> "documents_images", confirm |-> TRUE]
    /\ "documents_images" \in DOMAIN req.before /\ Len(req.before.documents_images) = 1
    /\ "documents_images" \notin DOMAIN store
    /\ "documents_archive" \in DOMAIN store

\* a confirmed request for a collection outside the three is refused
C30_WitnessRefused ==
    /\ Deleted /\ out.raised /\ out.status = 400
    /\ req.request = [collection_name |-> "documents_archive", confirm |-> TRUE]
    /\ "documents_archive" \in DOMAIN store
    /\ store = req.before

=============================================================================
